---- MODULE Spec2Model ----
(***************************************************************************)
(* The review/lock state machine of the goal service (src/goal.js): the    *)
(* goals and action_plans tables, the member and leader request handlers   *)
(* that write them, and the response each request is answered with.        *)
(*                                                                         *)
(* A handler is an operator from the current tables and the request        *)
(* (caller, id, JSON body) to the HTTP status code and the tables after    *)
(* the request; the action of the same endpoint applies it.  The gateway   *)
(* is taken to execute every statement it is sent (the 500 paths of a      *)
(* failing statement are modelled only where a key collision causes them), *)
(* except in the decision machine, where the store may refuse an update.   *)
(* Timestamps (updated_at, reviewed_at, ...) are not part of the state.    *)
(*                                                                         *)
(* The module also holds the verification requests and their review, the   *)
(* rollups of the manager dashboards (pure functions of the tables, the    *)
(* server's clock and its time zone) and the paging scan of the leader's   *)
(* goals summary (src/unnamed/part_000).                                   *)
(*                                                                         *)
(* Two further parts follow the requests below the level of a handler: the *)
(* id-list queries a dashboard request sends (which of them go through     *)
(* chunk), and the handlers of the plan and goal endpoints taken one       *)
(* awaited statement at a time on two connections, where the statements of *)
(* two requests interleave.                                                *)
(***************************************************************************)
EXTENDS Integers, Sequences, FiniteSets, TLC

VARIABLES goals, plans, reports, verification_requests, verification_reviews,
          goal_progress_history, server, scan, gateway, inflight, accepted,
          resp

vars == <<goals, plans, reports, verification_requests, verification_reviews,
          goal_progress_history, server, scan, gateway, inflight, accepted,
          resp>>

\* the tables of the verification process
verification == <<verification_requests, verification_reviews>>

\* what the dashboards read besides the tables above, and the paging scan
aggregation == <<goal_progress_history, server, scan>>

\* the requests in progress: the id-list queries a dashboard request has sent
\* so far, the handlers suspended between two statements, and the number of
\* deadline proposals each plan's owner has been answered 200 for
suspended == <<gateway, inflight, accepted>>

-----------------------------------------------------------------------------
(* JSON values.  A body key is absent (undefined) or carries one value.     *)

Undefined == <<>>
Some(v) == <<v>>
IsDefined(o) == o # Undefined
Val(o) == o[1]
Opt(S) == {Undefined} \cup {Some(v) : v \in S}

\* SQL NULL / JSON null in a text column
NULL == "NULL"
\* SQL NULL / JSON null in a DATE column; every date of the model is >= 1
NullDate == 0

Max(a, b) == IF a >= b THEN a ELSE b
Min(a, b) == IF a <= b THEN a ELSE b

-----------------------------------------------------------------------------
(* Bounds of the model.                                                     *)

\* a request body carries at most MaxKeys keys
MaxKeys == 2
\* the calendar days a deadline can name are 1..MaxDate
MaxDate == 2

Dates == 1..MaxDate
GoalIds == {"g1"}
PlanIds == {"p1"}

\* req.user: the token's sub and its cognito:groups
Callers ==
  { [sub |-> "u1", groups |-> {"member"}],
    [sub |-> "u2", groups |-> {"member"}],
    [sub |-> "l1", groups |-> {"leader"}] }

\* callers that are in the manager group and not in the leader group; they
\* send no request of the machines below, the guards are evaluated for them
Managers == { [sub |-> "m1", groups |-> {"manager"}] }

\* a leader of another team; like the managers, this caller sends requests
\* only where a machine below says so
OutsideLeaders == { [sub |-> "l2", groups |-> {"leader"}] }

\* the users table: each user's team_id.  l1 leads the team of the members
\* u1 and u2, l2 leads another team.
Users ==
  [ u1 |-> [team_id |-> "t1"], u2 |-> [team_id |-> "t1"],
    l1 |-> [team_id |-> "t1"], l2 |-> [team_id |-> "t2"],
    m1 |-> [team_id |-> NULL] ]

Members == {c \in Callers : "leader" \notin c.groups}
\* the member whose goals the model follows; u2 is the other member
Creators == {c \in Members : c.sub = "u1"}
Leaders == {c \in Callers : "leader" \in c.groups}

-----------------------------------------------------------------------------
(* Rows and request bodies.                                                 *)

GoalStatuses == {"Not started", "Draft", "In Progress", "Completed"}
\* the values PUT /leader/goals/:id/review is sent as status; "OnHold" stands
\* for any value other than the four the handler names
ReviewDecisions == {"Approved", "Rejected", "Cancelled", "Pending", "OnHold"}
ProgressInputs == {-5, 50, 100, 150}

Keys(b) == {k \in DOMAIN b : IsDefined(b[k])}

\* the row an insert into goals yields for the columns the body leaves out
DefaultGoal ==
  [ user_id |-> NULL, status |-> "Not started", progress |-> 0,
    review_status |-> NULL, is_locked |-> FALSE ]

\* the row an insert into action_plans yields for the columns the body leaves out
DefaultPlan ==
  [ goal_id |-> NULL, status |-> "Not Started", end_date |-> NullDate,
    request_deadline_date |-> NullDate, deadline_change_count |-> 0,
    review_status |-> NULL, is_locked |-> FALSE, leader_review_notes |-> NULL ]

\* req.body of POST /goals and PUT /goals/:id
GoalBodies ==
  { b \in [ user_id : Opt({"u2"}),
            status : Opt({"Draft", "In Progress"}),
            progress : Opt(ProgressInputs),
            review_status : Opt({"Pending"}) ] : Cardinality(Keys(b)) <= MaxKeys }

\* req.body of PUT /leader/goals/:id/review
GoalReviewBodies == [ status : Opt(ReviewDecisions) ]

\* req.body of POST /goals/:goalId/action-plans
NewPlanBodies == [ end_date : Opt(Dates) ]

\* buildInsert and the insert: the supplied (defined) columns over the defaults
InsertRow(defaults, obj) ==
  [k \in DOMAIN defaults |->
     IF k \in DOMAIN obj /\ IsDefined(obj[k]) THEN Val(obj[k]) ELSE defaults[k]]

\* buildUpdate and the update: the supplied (defined) columns are written,
\* every other column keeps its value
UpdateRow(row, obj) ==
  [k \in DOMAIN row |->
     IF k \in DOMAIN obj /\ IsDefined(obj[k]) THEN Val(obj[k]) ELSE row[k]]

\* a handler's answer: the status code and the tables after the request
Answer(c, g, p) == [code |-> c, goals |-> g, plans |-> p]
Reject(c) == Answer(c, goals, plans)

Put(f, id, row) == [i \in DOMAIN f \cup {id} |-> IF i = id THEN row ELSE f[i]]
Drop(f, id) == [i \in DOMAIN f \ {id} |-> f[i]]

isLeaderUser(caller) == "leader" \in caller.groups

-----------------------------------------------------------------------------
(* Member goal endpoints.                                                   *)

\* POST /goals
PostGoal(caller, id, body) ==
  LET goal == [body EXCEPT !.user_id = Some(caller.sub)]
  IN IF id \in DOMAIN goals
       THEN Reject(500)
       ELSE Answer(200, Put(goals, id, InsertRow(DefaultGoal, goal)), plans)

\* fault: progress is clamped but the status of the body is kept at 100
PutGoalUpdates_KeepsStatus(body) ==
  LET updates0 == [body EXCEPT !.user_id = Undefined]
  IN IF IsDefined(updates0.progress)
       THEN [updates0 EXCEPT !.progress = Some(Max(0, Min(100, Val(updates0.progress))))]
       ELSE updates0

\* fault: user_id is not taken out of the body
PutGoalUpdates_KeepsUserId(body) ==
  IF IsDefined(body.progress)
    THEN LET clamped == Max(0, Min(100, Val(body.progress)))
         IN [body EXCEPT !.progress = Some(clamped),
                         !.status = IF clamped >= 100 THEN Some("Completed") ELSE @]
    ELSE body

\* PUT /goals/:id, the body as it is written: user_id stripped, progress
\* clamped to 0..100, status forced to Completed at 100
PutGoalUpdates(body) ==
  LET updates0 == [body EXCEPT !.user_id = Undefined]
  IN IF IsDefined(updates0.progress)
       THEN LET clamped == Max(0, Min(100, Val(updates0.progress)))
            IN [updates0 EXCEPT !.progress = Some(clamped),
                                !.status = IF clamped >= 100 THEN Some("Completed") ELSE @]
       ELSE updates0

\* fault: an Approved, locked goal takes every key of the body
PutGoal_ApprovedTakesAnyKey(caller, id, body) ==
  LET updates == PutGoalUpdates(body)
  IN IF id \notin DOMAIN goals THEN Reject(404)
     ELSE IF goals[id].user_id # caller.sub THEN Reject(403)
     ELSE IF goals[id].is_locked /\ goals[id].review_status # "Approved"
       THEN Reject(423)
     ELSE Answer(200, [goals EXCEPT ![id] = UpdateRow(@, updates)], plans)

\* PUT /goals/:id
PutGoal(caller, id, body) ==
  LET updates == PutGoalUpdates(body)
  IN IF id \notin DOMAIN goals THEN Reject(404)
     ELSE IF goals[id].user_id # caller.sub THEN Reject(403)
     ELSE IF goals[id].is_locked /\ goals[id].review_status = "Approved"
             /\ \E k \in Keys(updates) : k \notin {"progress", "status"}
       THEN Reject(423)
     ELSE IF goals[id].is_locked /\ goals[id].review_status # "Approved"
       THEN Reject(423)
     ELSE Answer(200, [goals EXCEPT ![id] = UpdateRow(@, updates)], plans)

\* fault: the action plan prerequisite is not looked up
AnyPlan_NotChecked(id) == TRUE

\* select id from action_plans where goal_id = ? limit 1
AnyPlan(id) == \E p \in DOMAIN plans : plans[p].goal_id = id

\* fault: a goal that is already Pending is refused as a duplicate request
RequestReviewGoal_RefusesPending(caller, id) ==
  IF id \notin DOMAIN goals THEN Reject(404)
  ELSE IF goals[id].user_id # caller.sub THEN Reject(403)
  ELSE IF goals[id].review_status \in {"Approved", "Pending"} THEN Reject(409)
  ELSE IF ~AnyPlan(id) THEN Reject(409)
  ELSE Answer(200,
              [goals EXCEPT ![id] = UpdateRow(@, [review_status |-> Some("Pending"),
                                                  is_locked |-> Some(TRUE)])],
              plans)

\* POST /goals/:id/request-review
RequestReviewGoal(caller, id) ==
  IF id \notin DOMAIN goals THEN Reject(404)
  ELSE IF goals[id].user_id # caller.sub THEN Reject(403)
  ELSE IF goals[id].review_status = "Approved" THEN Reject(409)
  ELSE IF ~AnyPlan(id) THEN Reject(409)
  ELSE Answer(200,
              [goals EXCEPT ![id] = UpdateRow(@, [review_status |-> Some("Pending"),
                                                  is_locked |-> Some(TRUE)])],
              plans)

\* fault: an Approved goal is cancelled like any other
CancelReviewGoal_CancelsApproved(caller, id) ==
  IF id \notin DOMAIN goals THEN Reject(404)
  ELSE IF goals[id].user_id # caller.sub THEN Reject(403)
  ELSE Answer(200,
              [goals EXCEPT ![id] = UpdateRow(@, [review_status |-> Some("Cancelled"),
                                                  is_locked |-> Some(FALSE)])],
              plans)

\* POST /goals/:id/cancel-review
CancelReviewGoal(caller, id) ==
  IF id \notin DOMAIN goals THEN Reject(404)
  ELSE IF goals[id].user_id # caller.sub THEN Reject(403)
  ELSE IF goals[id].review_status = "Approved" THEN Reject(409)
  ELSE Answer(200,
              [goals EXCEPT ![id] = UpdateRow(@, [review_status |-> Some("Cancelled"),
                                                  is_locked |-> Some(FALSE)])],
              plans)

\* fault: DELETE /goals/:id without the is_locked check
DeleteGoal_IgnoresLock(caller, id, cascade) ==
  IF id \notin DOMAIN goals THEN Reject(404)
  ELSE IF goals[id].user_id # caller.sub THEN Reject(403)
  ELSE Answer(200, Drop(goals, id),
              IF cascade
                THEN [p \in {q \in DOMAIN plans : plans[q].goal_id # id} |-> plans[p]]
                ELSE plans)

\* DELETE /goals/:id.  Whether the store removes the goal's action plans with
\* it is decided by the schema, so both outcomes are answers (cascade).
DeleteGoal(caller, id, cascade) ==
  IF id \notin DOMAIN goals THEN Reject(404)
  ELSE IF goals[id].user_id # caller.sub THEN Reject(403)
  ELSE IF goals[id].is_locked THEN Reject(423)
  ELSE Answer(200, Drop(goals, id),
              IF cascade
                THEN [p \in {q \in DOMAIN plans : plans[q].goal_id # id} |-> plans[p]]
                ELSE plans)

-----------------------------------------------------------------------------
(* Leader goal review.                                                      *)

\* fault: an Approved decision unlocks the goal, as Rejected and Cancelled do
GoalReviewLock_ApprovedUnlocks(status) ==
  IF status \in {Some("Approved"), Some("Rejected"), Some("Cancelled")} THEN FALSE ELSE TRUE

\* the lock PUT /leader/goals/:id/review writes for a decision
GoalReviewLock(status) ==
  IF status = Some("Approved") THEN TRUE
  ELSE IF status = Some("Rejected") \/ status = Some("Cancelled") THEN FALSE
  ELSE TRUE

\* fault: an Approved decision advances the status whatever it was
GoalReviewNextStatus_AlwaysAdvances(status, existingStatus) ==
  IF status = Some("Approved") THEN "In Progress" ELSE existingStatus

\* the status PUT /leader/goals/:id/review writes for a decision
GoalReviewNextStatus(status, existingStatus) ==
  IF status = Some("Approved") /\ existingStatus \in {"Not started", "Draft"}
    THEN "In Progress"
    ELSE existingStatus

\* PUT /leader/goals/:id (behind requireLeader): the body is written as it is
LeaderPutGoal(caller, id, body) ==
  IF ~isLeaderUser(caller) THEN Reject(403)
  ELSE IF Keys(body) = {} THEN Reject(500)
  ELSE IF id \notin DOMAIN goals THEN Reject(404)
  ELSE Answer(200, [goals EXCEPT ![id] = UpdateRow(@, body)], plans)

\* PUT /leader/goals/:id/review (behind requireLeader)
ReviewGoal(caller, id, body) ==
  IF ~isLeaderUser(caller) THEN Reject(403)
  ELSE IF id \notin DOMAIN goals THEN Reject(404)
  ELSE LET baseUpdate ==
             [ review_status |-> body.status,
               is_locked |-> Some(GoalReviewLock(body.status)),
               status |-> Some(GoalReviewNextStatus(body.status, goals[id].status)) ]
       IN Answer(200, [goals EXCEPT ![id] = UpdateRow(@, baseUpdate)], plans)

-----------------------------------------------------------------------------
(* Action plans of a goal: creation and deletion.                           *)

\* assertCanAccessGoal: 0 when the caller may proceed, else the status code
assertCanAccessGoal(caller, goalId) ==
  IF isLeaderUser(caller) THEN 0
  ELSE IF goalId \notin DOMAIN goals THEN 404
  ELSE IF goals[goalId].user_id # caller.sub THEN 403
  ELSE 0

\* assertCanAccessActionPlan: 0 when the caller may proceed, else the status code
assertCanAccessActionPlan(caller, planId) ==
  IF isLeaderUser(caller) THEN 0
  ELSE IF planId \notin DOMAIN plans THEN 404
  ELSE IF plans[planId].goal_id \notin DOMAIN goals THEN 404
  ELSE IF goals[plans[planId].goal_id].user_id # caller.sub THEN 403
  ELSE 0

\* fault: POST /goals/:goalId/action-plans without the test of the goal's status
PostActionPlan_IgnoresGoalStatus(caller, goalId, planId, body) ==
  LET access == assertCanAccessGoal(caller, goalId)
      actionPlan == [goal_id |-> Some(goalId), end_date |-> body.end_date]
  IN IF access # 0 THEN Reject(access)
     ELSE IF ~isLeaderUser(caller) /\ goals[goalId].is_locked THEN Reject(423)
     ELSE IF planId \in DOMAIN plans THEN Reject(500)
     ELSE Answer(200, goals, Put(plans, planId, InsertRow(DefaultPlan, actionPlan)))

\* POST /goals/:goalId/action-plans
PostActionPlan(caller, goalId, planId, body) ==
  LET access == assertCanAccessGoal(caller, goalId)
      actionPlan == [goal_id |-> Some(goalId), end_date |-> body.end_date]
  IN IF access # 0 THEN Reject(access)
     ELSE IF ~isLeaderUser(caller) /\ goals[goalId].is_locked THEN Reject(423)
     ELSE IF ~isLeaderUser(caller) /\ goals[goalId].status # "Not started" THEN Reject(409)
     ELSE IF planId \in DOMAIN plans THEN Reject(500)
     ELSE Answer(200, goals, Put(plans, planId, InsertRow(DefaultPlan, actionPlan)))

\* DELETE /action-plans/:id
DeleteActionPlan(caller, id) ==
  LET access == assertCanAccessActionPlan(caller, id)
  IN IF access # 0 THEN Reject(access)
     ELSE IF ~isLeaderUser(caller) /\ id \notin DOMAIN plans THEN Reject(404)
     ELSE IF ~isLeaderUser(caller) /\ plans[id].is_locked THEN Reject(423)
     ELSE Answer(200, goals, Drop(plans, id))

-----------------------------------------------------------------------------
(* Action plan endpoints: the deadline-change protocol and the review.      *)

\* the quota of 'Deadline can only be changed 3 times'
MaxDeadlineChanges == 3

\* req.body of PUT /action-plans/:id.  end_date is a date string (a value of
\* Dates) or JSON null (NullDate), which is not a string.
PlanBodies ==
  { b \in [ end_date : Opt({NullDate} \cup Dates),
            status : Opt({"In Progress"}),
            review_status : Opt({"Pending"}),
            deadline_change_count : Opt({0, 7}) ] : Cardinality(Keys(b)) <= MaxKeys }

\* the goal of another member, and the bodies of PUT /action-plans/:id that
\* carry its id as goal_id
OtherGoalIds == {"g2"}
ReassignBodies ==
  { [goal_id |-> Some(g)] @@ b :
      g \in OtherGoalIds, b \in {x \in PlanBodies : Cardinality(Keys(x)) < MaxKeys} }

\* req.body of PUT /leader/action-plans/:id/review
PlanReviewBodies == [ status : Opt(ReviewDecisions), comment : Opt({"note"}) ]

\* typeof updates.end_date === 'string'
IsDateString(o) == IsDefined(o) /\ Val(o) # NullDate

\* existingPlan.request_deadline_date || existingPlan.end_date
CurrentEffective(plan) ==
  IF plan.request_deadline_date # NullDate
    THEN plan.request_deadline_date
    ELSE plan.end_date

\* the member's deadline proposal is a change of the effective deadline
IsDeadlineChange(plan, body) ==
  IsDateString(body.end_date) /\ Val(body.end_date) # CurrentEffective(plan)

\* fault: the quota test taken as count > 3, which lets a fourth change through
QuotaExceeded_OffByOne(plan) == plan.deadline_change_count > MaxDeadlineChanges

\* count >= 3: the quota is used up
QuotaExceeded(plan) == plan.deadline_change_count >= MaxDeadlineChanges

\* deadline_change_count: count + 1
NextDeadlineCount(plan) == plan.deadline_change_count + 1

\* fault: the member's end_date is left in the update and written directly
MemberPlanUpdates_WritesEndDate(plan, body) ==
  IF IsDeadlineChange(plan, body)
    THEN [ request_deadline_date |-> Some(Val(body.end_date)),
           deadline_change_count |-> Some(NextDeadlineCount(plan)),
           review_status |-> Some("Pending"),
           is_locked |-> Some(TRUE),
           leader_review_notes |-> Some(NULL),
           status |-> body.status,
           end_date |-> body.end_date ]
    ELSE [ deadline_change_count |-> body.deadline_change_count,
           review_status |-> body.review_status,
           status |-> body.status,
           end_date |-> body.end_date ]

\* PUT /action-plans/:id, the columns a member's body is turned into
MemberPlanUpdates(plan, body) ==
  LET proposal ==
        IF IsDeadlineChange(plan, body)
          THEN [ request_deadline_date |-> Some(Val(body.end_date)),
                 deadline_change_count |-> Some(NextDeadlineCount(plan)),
                 review_status |-> Some("Pending"),
                 is_locked |-> Some(TRUE),
                 leader_review_notes |-> Some(NULL) ] @@ body
          ELSE body
  IN IF IsDateString(body.end_date)
       THEN [proposal EXCEPT !.end_date = Undefined]
       ELSE proposal

\* PUT /action-plans/:id, the columns a leader's body is written as
LeaderPlanUpdates(body) == body

\* fault: PUT /action-plans/:id without the status freeze of a Pending plan
PutActionPlan_NoStatusFreeze(caller, id, body) ==
  LET access == assertCanAccessActionPlan(caller, id)
  IN IF access # 0 THEN Reject(access)
     ELSE IF isLeaderUser(caller)
       THEN IF Keys(LeaderPlanUpdates(body)) = {} THEN Reject(500)
            ELSE IF id \notin DOMAIN plans THEN Reject(200)
            ELSE Answer(200, goals,
                        [plans EXCEPT ![id] = UpdateRow(@, LeaderPlanUpdates(body))])
     ELSE LET plan == plans[id]
              updates == MemberPlanUpdates(plan, body)
          IN IF plan.is_locked /\ plan.review_status = "Pending"
                /\ \E k \in Keys(body) : k # "end_date"
               THEN Reject(423)
             ELSE IF IsDeadlineChange(plan, body) /\ QuotaExceeded(plan)
               THEN Reject(409)
             ELSE IF Keys(updates) = {} THEN Reject(500)
             ELSE Answer(200, goals, [plans EXCEPT ![id] = UpdateRow(@, updates)])

\* fault: PUT /action-plans/:id without the deadline-only check of a locked,
\* Pending plan
PutActionPlan_NoLockCheck(caller, id, body) ==
  LET access == assertCanAccessActionPlan(caller, id)
  IN IF access # 0 THEN Reject(access)
     ELSE IF isLeaderUser(caller)
       THEN IF Keys(LeaderPlanUpdates(body)) = {} THEN Reject(500)
            ELSE IF id \notin DOMAIN plans THEN Reject(200)
            ELSE Answer(200, goals,
                        [plans EXCEPT ![id] = UpdateRow(@, LeaderPlanUpdates(body))])
     ELSE LET plan == plans[id]
              updates == MemberPlanUpdates(plan, body)
          IN IF plan.review_status = "Pending" /\ IsDefined(body.status)
                /\ Val(body.status) # plan.status
               THEN Reject(409)
             ELSE IF IsDeadlineChange(plan, body) /\ QuotaExceeded(plan)
               THEN Reject(409)
             ELSE IF Keys(updates) = {} THEN Reject(500)
             ELSE Answer(200, goals, [plans EXCEPT ![id] = UpdateRow(@, updates)])

\* PUT /action-plans/:id
PutActionPlan(caller, id, body) ==
  LET access == assertCanAccessActionPlan(caller, id)
  IN IF access # 0 THEN Reject(access)
     ELSE IF isLeaderUser(caller)
       THEN IF Keys(LeaderPlanUpdates(body)) = {} THEN Reject(500)
            ELSE IF id \notin DOMAIN plans THEN Reject(200)
            ELSE Answer(200, goals,
                        [plans EXCEPT ![id] = UpdateRow(@, LeaderPlanUpdates(body))])
     ELSE LET plan == plans[id]
              updates == MemberPlanUpdates(plan, body)
          IN IF plan.is_locked /\ plan.review_status = "Pending"
                /\ \E k \in Keys(body) : k # "end_date"
               THEN Reject(423)
             ELSE IF plan.review_status = "Pending" /\ IsDefined(body.status)
                     /\ Val(body.status) # plan.status
               THEN Reject(409)
             ELSE IF IsDeadlineChange(plan, body) /\ QuotaExceeded(plan)
               THEN Reject(409)
             ELSE IF Keys(updates) = {} THEN Reject(500)
             ELSE Answer(200, goals, [plans EXCEPT ![id] = UpdateRow(@, updates)])

\* POST /action-plans/:id/request-review
RequestReviewPlan(caller, id) ==
  LET access == assertCanAccessActionPlan(caller, id)
  IN IF access # 0 THEN Reject(access)
     ELSE IF isLeaderUser(caller) THEN Reject(403)
     ELSE IF plans[id].review_status = "Approved" THEN Reject(409)
     ELSE Answer(200, goals,
                 [plans EXCEPT ![id] = UpdateRow(@, [review_status |-> Some("Pending"),
                                                     is_locked |-> Some(TRUE)])])

\* POST /action-plans/:id/cancel-review
CancelReviewPlan(caller, id) ==
  LET access == assertCanAccessActionPlan(caller, id)
  IN IF access # 0 THEN Reject(access)
     ELSE IF isLeaderUser(caller) THEN Reject(403)
     ELSE IF plans[id].review_status = "Approved" THEN Reject(409)
     ELSE Answer(200, goals,
                 [plans EXCEPT ![id] = UpdateRow(@, [review_status |-> Some(NULL),
                                                     is_locked |-> Some(FALSE),
                                                     request_deadline_date |-> Some(NullDate)])])

\* fault: an Approved decision clears the requested date without applying it
PlanReviewUpdate_DropsRequest(plan, body) ==
  [ review_status |-> body.status,
    leader_review_notes |-> body.comment,
    is_locked |-> Some(body.status = Some("Pending")),
    end_date |-> Undefined,
    request_deadline_date |->
      IF body.status \in {Some("Approved"), Some("Rejected")} THEN Some(NullDate) ELSE Undefined ]

\* fault: an Approved decision keeps the plan locked, as it does for a goal
PlanReviewUpdate_LocksApproved(plan, body) ==
  LET updatePayload ==
        [ review_status |-> body.status,
          leader_review_notes |-> body.comment,
          is_locked |-> Some(body.status \in {Some("Pending"), Some("Approved")}),
          end_date |-> Undefined,
          request_deadline_date |-> Undefined ]
      approved ==
        IF body.status = Some("Approved") /\ plan.request_deadline_date # NullDate
          THEN [updatePayload EXCEPT !.end_date = Some(plan.request_deadline_date),
                                     !.request_deadline_date = Some(NullDate)]
          ELSE updatePayload
  IN IF body.status = Some("Rejected")
       THEN [approved EXCEPT !.request_deadline_date = Some(NullDate)]
       ELSE approved

\* PUT /leader/action-plans/:id/review, the columns a decision writes
PlanReviewUpdate(plan, body) ==
  LET updatePayload ==
        [ review_status |-> body.status,
          leader_review_notes |-> body.comment,
          is_locked |-> Some(body.status = Some("Pending")),
          end_date |-> Undefined,
          request_deadline_date |-> Undefined ]
      approved ==
        IF body.status = Some("Approved") /\ plan.request_deadline_date # NullDate
          THEN [updatePayload EXCEPT !.end_date = Some(plan.request_deadline_date),
                                     !.request_deadline_date = Some(NullDate)]
          ELSE updatePayload
  IN IF body.status = Some("Rejected")
       THEN [approved EXCEPT !.request_deadline_date = Some(NullDate)]
       ELSE approved

\* PUT /leader/action-plans/:id/review (behind requireLeader)
ReviewActionPlan(caller, id, body) ==
  IF ~isLeaderUser(caller) THEN Reject(403)
  ELSE IF id \notin DOMAIN plans THEN Reject(404)
  ELSE Answer(200, goals,
              [plans EXCEPT ![id] = UpdateRow(@, PlanReviewUpdate(plans[id], body))])

-----------------------------------------------------------------------------
(* Weekly reports of an action plan.                                        *)

ReportIds == {"r1"}

\* the row an insert into weekly_reports yields for the columns the body
\* leaves out
DefaultReport ==
  [ action_plan_id |-> NULL, goal_id |-> NULL, date |-> NullDate, lead_feedback |-> NULL ]

\* req.body of POST /action-plans/:actionPlanId/weekly-reports and of
\* PUT /weekly-reports/:id
ReportBodies == [ date : Opt({1}), lead_feedback : Opt({"feedback"}) ]

\* fault: the owner of the plan's goal is not looked up
assertCanAccessWeeklyReport_SkipsPlan(caller, reportId) ==
  IF isLeaderUser(caller) THEN 0
  ELSE IF reportId \notin DOMAIN reports THEN 404
  ELSE 0

\* assertCanAccessWeeklyReport: 0 when the caller may proceed, else the
\* status code
assertCanAccessWeeklyReport(caller, reportId) ==
  IF isLeaderUser(caller) THEN 0
  ELSE IF reportId \notin DOMAIN reports THEN 404
  ELSE assertCanAccessActionPlan(caller, reports[reportId].action_plan_id)

\* a weekly report handler's answer: the status code and the weekly_reports
\* table after the request
Reported(c, w) == [code |-> c, reports |-> w]

\* fault: POST /action-plans/:actionPlanId/weekly-reports without the status
\* precondition of a non-leader caller
PostWeeklyReport_NoPrecondition(caller, actionPlanId, reportId, body) ==
  LET access == assertCanAccessActionPlan(caller, actionPlanId)
  IN IF access # 0 THEN Reported(access, reports)
     ELSE IF actionPlanId \notin DOMAIN plans THEN Reported(404, reports)
     ELSE LET plan == plans[actionPlanId]
              weeklyReport == body @@ [action_plan_id |-> Some(actionPlanId),
                                       goal_id |-> Some(plan.goal_id)]
          IN IF reportId \in DOMAIN reports THEN Reported(500, reports)
             ELSE Reported(200, Put(reports, reportId, InsertRow(DefaultReport, weeklyReport)))

\* POST /action-plans/:actionPlanId/weekly-reports
PostWeeklyReport(caller, actionPlanId, reportId, body) ==
  LET access == assertCanAccessActionPlan(caller, actionPlanId)
  IN IF access # 0 THEN Reported(access, reports)
     ELSE IF actionPlanId \notin DOMAIN plans THEN Reported(404, reports)
     ELSE LET plan == plans[actionPlanId]
              weeklyReport == body @@ [action_plan_id |-> Some(actionPlanId),
                                       goal_id |-> Some(plan.goal_id)]
          IN IF ~isLeaderUser(caller) /\ plan.goal_id \notin DOMAIN goals
               THEN Reported(404, reports)
             ELSE IF ~isLeaderUser(caller)
                     /\ ~(goals[plan.goal_id].status = "In Progress"
                          /\ plan.status \in {"In Progress", "Blocked"})
               THEN Reported(409, reports)
             ELSE IF reportId \in DOMAIN reports THEN Reported(500, reports)
             ELSE Reported(200, Put(reports, reportId, InsertRow(DefaultReport, weeklyReport)))

\* PUT /weekly-reports/:id
PutWeeklyReport(caller, id, body) ==
  LET access == assertCanAccessWeeklyReport(caller, id)
  IN IF access # 0 THEN Reported(access, reports)
     ELSE IF ~isLeaderUser(caller) /\ IsDefined(body.lead_feedback) THEN Reported(403, reports)
     ELSE IF Keys(body) = {} THEN Reported(500, reports)
     ELSE IF id \notin DOMAIN reports THEN Reported(200, reports)
     ELSE Reported(200, [reports EXCEPT ![id] = UpdateRow(@, body)])

\* DELETE /weekly-reports/:id
DeleteWeeklyReport(caller, id) ==
  LET access == assertCanAccessWeeklyReport(caller, id)
  IN IF access # 0 THEN Reported(access, reports)
     ELSE Reported(200, Drop(reports, id))

-----------------------------------------------------------------------------
(* Verification requests and their review.                                  *)

RequestIds == {"v1", "v2"}

\* req.body of POST /verification-requests/:id/review; "Maybe" stands for
\* any result other than the three the handler accepts
VerificationBodies ==
  [ result : Opt({"Pass", "NeedsWork", "Fail", "Maybe"}),
    scores : Opt({"scores"}),
    leader_feedback : Opt({"feedback"}) ]

\* a verification handler's answer: the status code and the two tables
Verified(c, rq, rv) == [code |-> c, requests |-> rq, reviews |-> rv]

\* POST /verification-requests with a body that names goal_id and scope; id
\* is the fresh crypto.randomUUID()
PostVerificationRequest(caller, id, goal_id) ==
  LET access == assertCanAccessGoal(caller, goal_id)
      payload == [requester_id |-> caller.sub, goal_id |-> goal_id, status |-> "Pending"]
  IN IF access # 0 THEN Verified(access, verification_requests, verification_reviews)
     ELSE Verified(200, Put(verification_requests, id, payload), verification_reviews)

\* getLeaderTeamScope: 0 with the leader's team, else the status code
getLeaderTeamScope(caller) ==
  IF caller.sub \notin DOMAIN Users THEN [status |-> 403, teamId |-> NULL]
  ELSE IF Users[caller.sub].team_id = NULL THEN [status |-> 403, teamId |-> NULL]
  ELSE [status |-> 0, teamId |-> Users[caller.sub].team_id]

\* the rows of verification_reviews that the unique key on request_id makes
\* a duplicate of payload
DuplicateKey(rows, payload) ==
  {i \in DOMAIN rows : rows[i].request_id = payload.request_id}

\* fault: on a duplicate key the stored review is kept as it is
UpsertReview_KeepsFirst(rows, payload) ==
  IF DuplicateKey(rows, payload) = {} THEN Append(rows, payload) ELSE rows

\* insert into verification_reviews ... on duplicate key update ...
UpsertReview(rows, payload) ==
  IF DuplicateKey(rows, payload) = {}
    THEN Append(rows, payload)
    ELSE [i \in DOMAIN rows |->
            IF i \in DuplicateKey(rows, payload)
              THEN [rows[i] EXCEPT !.leader_id = payload.leader_id,
                                   !.result = payload.result,
                                   !.scores = payload.scores,
                                   !.leader_feedback = payload.leader_feedback]
              ELSE rows[i]]

\* POST /verification-requests/:id/review (behind requireLeader)
ReviewVerification(caller, id, body) ==
  LET unchanged(c) == Verified(c, verification_requests, verification_reviews)
      scope == getLeaderTeamScope(caller)
  IN IF ~isLeaderUser(caller) THEN unchanged(403)
     ELSE IF ~IsDefined(body.result) \/ Val(body.result) \notin {"Pass", "NeedsWork", "Fail"}
       THEN unchanged(400)
     ELSE IF id \notin DOMAIN verification_requests
             \/ verification_requests[id].requester_id \notin DOMAIN Users
       THEN unchanged(404)
     ELSE IF scope.status # 0 THEN unchanged(scope.status)
     ELSE IF Users[verification_requests[id].requester_id].team_id # scope.teamId
       THEN unchanged(403)
     ELSE LET reviewPayload ==
                [ request_id |-> id,
                  leader_id |-> caller.sub,
                  result |-> Val(body.result),
                  scores |-> IF IsDefined(body.scores) THEN Val(body.scores) ELSE "{}",
                  leader_feedback |->
                    IF IsDefined(body.leader_feedback) THEN Val(body.leader_feedback) ELSE NULL ]
          IN Verified(200,
                      [verification_requests EXCEPT ![id].status = "Reviewed"],
                      UpsertReview(verification_reviews, reviewPayload))

-----------------------------------------------------------------------------
(* Leader decisions against a store that can refuse an update: the audited  *)
(* update and its retry without the audit fields.                           *)

\* the audit columns a decision writes besides its base fields
AuditFields ==
  {"reviewed_by", "reviewed_by_email", "reviewed_by_name",
   "reviewed_at", "approved_at", "rejected_at"}

\* a goals row with the leader_review_notes column.  No handler reads an
\* audit column, so the rows do not carry them.
ReviewedGoal == DefaultGoal @@ [leader_review_notes |-> NULL]

\* the decisions sent to the store that can refuse; "OnHold" and "Cancelled"
\* are decided as "Pending" and "Rejected" are, apart from the value
AuditedDecisions == {"Approved", "Rejected", "Pending"}

\* req.body of PUT /leader/goals/:id/review and of
\* PUT /leader/action-plans/:id/review
DecisionBodies == [ status : Opt(AuditedDecisions), comment : Opt({"note"}) ]

\* what the store answers an update with: it is executed (OK), or it fails
\* with an error of some code whose message does or does not say
\* "unknown column"
OK == [code |-> "OK", unknownColumn |-> FALSE]
StoreErrors ==
  { [code |-> "ER_BAD_FIELD_ERROR", unknownColumn |-> TRUE],
    [code |-> "ER_LOCK_DEADLOCK", unknownColumn |-> TRUE],
    [code |-> "ER_LOCK_DEADLOCK", unknownColumn |-> FALSE] }
StoreOutcomes == {OK} \cup StoreErrors

\* the users row of the reviewer: found (email and name known) or not
Profiles == {"found", "none"}

\* getReviewerIdentity
getReviewerIdentity(caller, profile) ==
  [ id |-> caller.sub,
    email |-> IF profile = "found" THEN "mail" ELSE NULL,
    name |-> IF profile = "found" THEN "name" ELSE NULL ]

\* fault: every failure of the audited update is taken for a missing column
isMissingColumnError_AnyError(err) == TRUE

\* isMissingColumnError
isMissingColumnError(err) == err.code = "ER_BAD_FIELD_ERROR" \/ err.unknownColumn

\* the audit fields of a decision; nowIso is the one value "now"
AuditUpdate(baseUpdate, status, reviewer) ==
  baseUpdate @@
  [ reviewed_by |-> Some(reviewer.id),
    reviewed_by_email |-> Some(reviewer.email),
    reviewed_by_name |-> Some(reviewer.name),
    reviewed_at |-> Some("now"),
    approved_at |-> Some(IF status = Some("Approved") THEN "now" ELSE NULL),
    rejected_at |-> Some(IF status = Some("Rejected") THEN "now" ELSE NULL) ]

\* the try/catch around the audited update: the row after it, whether the
\* request failed, and the updates that were submitted, in order.  first and
\* second are the store's answers to the first and to a second update.
SubmitDecision(row, baseUpdate, auditUpdate, first, second) ==
  IF first = OK
    THEN [row |-> UpdateRow(row, auditUpdate), failed |-> FALSE,
          attempts |-> <<auditUpdate>>]
  ELSE IF isMissingColumnError(first)
    THEN IF second = OK
           THEN [row |-> UpdateRow(row, baseUpdate), failed |-> FALSE,
                 attempts |-> <<auditUpdate, baseUpdate>>]
           ELSE [row |-> row, failed |-> TRUE,
                 attempts |-> <<auditUpdate, baseUpdate>>]
  ELSE [row |-> row, failed |-> TRUE, attempts |-> <<auditUpdate>>]

\* a decision handler's answer: the status code, the tables after the request
\* and the updates it submitted
Decided(c, g, p, a) == [code |-> c, goals |-> g, plans |-> p, attempts |-> a]

\* PUT /leader/goals/:id/review with the store's answers
ReviewGoalAudited(caller, id, body, profile, first, second) ==
  IF ~isLeaderUser(caller) THEN Decided(403, goals, plans, << >>)
  ELSE IF id \notin DOMAIN goals THEN Decided(404, goals, plans, << >>)
  ELSE LET baseUpdate ==
             [ review_status |-> body.status,
               leader_review_notes |-> body.comment,
               is_locked |-> Some(GoalReviewLock(body.status)),
               status |-> Some(GoalReviewNextStatus(body.status, goals[id].status)) ]
           auditUpdate == AuditUpdate(baseUpdate, body.status,
                                      getReviewerIdentity(caller, profile))
           s == SubmitDecision(goals[id], baseUpdate, auditUpdate, first, second)
       IN Decided(IF s.failed THEN 500 ELSE 200,
                  [goals EXCEPT ![id] = s.row], plans, s.attempts)

\* PUT /leader/action-plans/:id/review with the store's answers
ReviewActionPlanAudited(caller, id, body, profile, first, second) ==
  IF ~isLeaderUser(caller) THEN Decided(403, goals, plans, << >>)
  ELSE IF id \notin DOMAIN plans THEN Decided(404, goals, plans, << >>)
  ELSE LET baseUpdate == PlanReviewUpdate(plans[id], body)
           auditUpdate == AuditUpdate(baseUpdate, body.status,
                                      getReviewerIdentity(caller, profile))
           s == SubmitDecision(plans[id], baseUpdate, auditUpdate, first, second)
       IN Decided(IF s.failed THEN 500 ELSE 200,
                  goals, [plans EXCEPT ![id] = s.row], s.attempts)

-----------------------------------------------------------------------------
(* The clock of the server and the calendar.  A Date is an instant: whole   *)
(* hours since 00:00 UTC of day 0.  A DATE column or a 'YYYY-MM-DD' string  *)
(* is a day number, day 1 being a Monday.  server.tz is the UTC offset of   *)
(* the server's time zone in hours; daylight saving is not modelled.        *)

\* the hours of a day (msDay)
Day == 24

\* the clock and the zone of the rows of the machines that read no clock
Epoch == [now |-> Day, tz |-> 0]

\* d.toISOString().slice(0, 10): the day of the instant in UTC
toDateOnly(d) == d \div Day

\* new Date(y, m - 1, dd) and setHours(0, 0, 0, 0): the local midnight of day s
parseDateOnly(s) == s * Day - server.tz

\* new Date('YYYY-MM-DD'): the UTC midnight of day s
DateOf(s) == s * Day

\* Date.prototype.getDay: the local day of the week, Sunday = 0
getDay(d) == ((d + server.tz) \div Day) % 7

\* setHours(0, 0, 0, 0): the local midnight at or before the instant
StartOfDay(d) == ((d + server.tz) \div Day) * Day - server.tz

startOfWeekMonday(d) ==
  LET day == (getDay(d) + 6) % 7
  IN StartOfDay(d) - day * Day

weekKey(d) == toDateOnly(startOfWeekMonday(d))

-----------------------------------------------------------------------------
(* Numbers of the dashboards.  A quotient a / b is kept exact as the pair   *)
(* of a and b; b = 0 is the NaN or Infinity that JavaScript yields.  A      *)
(* nullable number is the empty sequence (null) or the number in a          *)
(* one-element sequence.                                                    *)

NullNumber == << >>
NumberOf(q) == <<q>>

Quotient(a, b) == [num |-> a, den |-> b]
Zero == Quotient(0, 1)

Abs(x) == IF x < 0 THEN -x ELSE x

\* Math.round(a / b) for b > 0: halves go up
Round(a, b) == (2 * a + b) \div (2 * b)

\* Number(q.toFixed(digits)), scale = 10^digits: halves go away from zero;
\* NaN and Infinity stay what they are
ToFixed(q, scale) ==
  IF q.den = 0 THEN q
  ELSE LET n == Round(Abs(q.num) * scale, q.den)
       IN Quotient(IF q.num < 0 THEN -n ELSE n, scale)

RECURSIVE SumOver(_, _)
SumOver(f, S) ==
  IF S = {} THEN 0
  ELSE LET x == CHOOSE y \in S : TRUE IN f[x] + SumOver(f, S \ {x})

-----------------------------------------------------------------------------
(* The analytics aggregator: the member rollup.                             *)

\* the rows of the tables with the columns the dashboards read
InsightGoal == DefaultGoal @@ [start_date |-> NullDate, time_bound |-> NullDate]
InsightPlan == DefaultPlan @@ [evidence_link |-> NULL]
InsightReport == DefaultReport @@ [blockers_challenges |-> NULL]

\* evidence_link and blockers_challenges: null, blank, or a text
Texts == {NULL, " ", "text"}
\* (typeof x === 'string' ? x.trim() : '').length > 0
HasText(x) == x # NULL /\ x # " " /\ x # ""

\* the history row of goal g that was recorded last among the rows S
LatestRow(S) ==
  CHOOSE i \in S : \A j \in S :
    goal_progress_history[j].recorded_at <= goal_progress_history[i].recorded_at

\* select ... from goal_progress_history where goal_id in (?) and recorded_at
\* between historyFrom and now, order by recorded_at desc
HistoryRows(goalIds, historyFrom, curCutoff) ==
  { i \in DOMAIN goal_progress_history :
      /\ goal_progress_history[i].goal_id \in goalIds
      /\ goal_progress_history[i].recorded_at >= historyFrom
      /\ goal_progress_history[i].recorded_at <= curCutoff }

\* cur: per goal the progress of the first row of hist
CurrentProgress(hist, gid, live) ==
  LET S == {i \in hist : goal_progress_history[i].goal_id = gid}
  IN IF S # {} THEN goal_progress_history[LatestRow(S)].progress ELSE live

\* fault: a goal without a row before the week counts as having been at 0
PreviousProgress_FromZero(hist, gid, prevCutoff, curP) ==
  LET S == {i \in hist : /\ goal_progress_history[i].goal_id = gid
                         /\ goal_progress_history[i].recorded_at <= prevCutoff}
  IN IF S # {} THEN goal_progress_history[LatestRow(S)].progress ELSE 0

\* prev: per goal the progress of the first row of hist at or before
\* prevCutoff, else the goal's current value
PreviousProgress(hist, gid, prevCutoff, curP) ==
  LET S == {i \in hist : /\ goal_progress_history[i].goal_id = gid
                         /\ goal_progress_history[i].recorded_at <= prevCutoff}
  IN IF S # {} THEN goal_progress_history[LatestRow(S)].progress ELSE curP

\* prevCutoff: setMilliseconds(-1) on thisWeekStart.  The instants of the
\* model are whole hours, so the last instant before the week is one hour back.
PrevCutoff(thisWeekStart) == thisWeekStart - 1

\* curVals and prevVals of the goals, from the history of the lookback
ProgressValues(goalIds, historyDays) ==
  LET prevCutoff == PrevCutoff(startOfWeekMonday(server.now))
      historyFrom == prevCutoff - historyDays * Day
      hist == HistoryRows(goalIds, historyFrom, server.now)
      cur == [g \in goalIds |-> CurrentProgress(hist, g, goals[g].progress)]
  IN [ cur |-> cur,
       prev |-> [g \in goalIds |-> PreviousProgress(hist, g, prevCutoff, cur[g])] ]

\* fault: a member without goals is reported a delta of 0
MemberProgressDelta_ZeroWhenEmpty(goalIds, lookbackWeeks) ==
  IF goalIds = {} THEN NumberOf(Zero)
  ELSE LET v == ProgressValues(goalIds, Max(14, lookbackWeeks * 7))
           n == Cardinality(goalIds)
       IN NumberOf(ToFixed(Quotient(SumOver(v.cur, goalIds) - SumOver(v.prev, goalIds), n), 100))

\* progressDelta of computeMemberInsights: avg(curVals) - avg(prevVals), two
\* decimals; null when the member has no goal
MemberProgressDelta(goalIds, lookbackWeeks) ==
  IF goalIds = {} THEN NullNumber
  ELSE LET v == ProgressValues(goalIds, Max(14, lookbackWeeks * 7))
           n == Cardinality(goalIds)
       IN NumberOf(ToFixed(Quotient(SumOver(v.cur, goalIds) - SumOver(v.prev, goalIds), n), 100))

\* goalHealth of computeMemberInsights
GoalHealth(goalIds) ==
  LET now == server.now
      start(g) == DateOf(goals[g].start_date)
      end(g) == DateOf(goals[g].time_bound)
      timed == { g \in goalIds : /\ goals[g].start_date # NullDate
                                 /\ goals[g].time_bound # NullDate
                                 /\ end(g) - start(g) > 0 }
      expected(g) == Min(100, Round((now - start(g)) * 100, end(g) - start(g)))
  IN [ onTrack |-> Cardinality({g \in timed : goals[g].progress >= expected(g) - 10}),
       atRisk |-> Cardinality({g \in timed : /\ goals[g].progress >= expected(g) - 20
                                             /\ goals[g].progress < expected(g) - 10}),
       highRisk |-> Cardinality({g \in timed : goals[g].progress < expected(g) - 20}),
       stagnant |-> Cardinality({g \in goalIds : /\ goals[g].review_status = "Approved"
                                                 /\ goals[g].progress <= 0
                                                 /\ goals[g].start_date # NullDate
                                                 /\ (now - start(g)) \div Day > 10}) ]

\* fault: the quotient is taken whether or not a plan is completed
EvidenceRate_Unguarded(completedWithEvidence, completed) ==
  Quotient(completedWithEvidence, completed)

\* completed > 0 ? completedWithEvidence / completed : 0
EvidenceRate(completedWithEvidence, completed) ==
  IF completed > 0 THEN Quotient(completedWithEvidence, completed) ELSE Zero

\* the weeks of the reports: weekKey(parseDateOnly(r.date))
WeeksWithActivity(reportIds) ==
  {weekKey(parseDateOnly(reports[r].date)) : r \in reportIds}

\* for (let i = 0; i < lookbackWeeks; i++) { ... streakWeeks += 1; else break }
RECURSIVE StreakWeeks(_, _, _, _)
StreakWeeks(weeksWithActivity, thisWeekStart, lookbackWeeks, i) ==
  IF i >= lookbackWeeks THEN 0
  ELSE IF weekKey(thisWeekStart - i * 7 * Day) \in weeksWithActivity
    THEN 1 + StreakWeeks(weeksWithActivity, thisWeekStart, lookbackWeeks, i + 1)
  ELSE 0

\* the blocker texts of the reports with their counts, the most frequent
\* first.  The rows of the model carry one blocker text, so the list has at
\* most one entry and the order of equal counts is not at stake.
TopBlockers(reportIds) ==
  LET n == Cardinality({r \in reportIds : HasText(reports[r].blockers_challenges)})
  IN IF n > 0 THEN << [text |-> "text", count |-> n] >> ELSE << >>

\* computeMemberInsights({ userId, targetYear, lookbackWeeks }); every goal of
\* the model is a goal of the target year
computeMemberInsights(userId, lookbackWeeks) ==
  LET now == server.now
      thisWeekStart == startOfWeekMonday(now)
      fromStr == toDateOnly(thisWeekStart - (lookbackWeeks - 1) * 7 * Day)
      toStr == toDateOnly(now)
      goalIds == {g \in DOMAIN goals : goals[g].user_id = userId}
      allPlans == {p \in DOMAIN plans : plans[p].goal_id \in goalIds}
      reportIds == { r \in DOMAIN reports : /\ reports[r].goal_id \in goalIds
                                            /\ reports[r].date # NullDate
                                            /\ reports[r].date >= fromStr
                                            /\ reports[r].date <= toStr }
      completedPlans == {p \in allPlans : plans[p].status = "Completed"}
      completedWithEvidence == {p \in completedPlans : HasText(plans[p].evidence_link)}
      overduePlans == { p \in allPlans : /\ plans[p].end_date # NullDate
                                         /\ plans[p].status # "Completed"
                                         /\ parseDateOnly(plans[p].end_date) < StartOfDay(now) }
      weeksWithActivity == WeeksWithActivity(reportIds)
  IN [ window |-> [from |-> fromStr, to |-> toStr, weeks |-> lookbackWeeks],
       goals |-> [ total |-> Cardinality(goalIds),
                   approved |-> Cardinality({g \in goalIds : goals[g].review_status = "Approved"}),
                   pending |-> Cardinality({g \in goalIds :
                                 goals[g].review_status \in {NULL, "Pending"}}),
                   health |-> GoalHealth(goalIds) ],
       action_plans |-> [ total |-> Cardinality(allPlans),
                          overdue |-> Cardinality(overduePlans),
                          completed |-> Cardinality(completedPlans),
                          completed_with_evidence |-> Cardinality(completedWithEvidence),
                          evidence_rate |-> EvidenceRate(Cardinality(completedWithEvidence),
                                                         Cardinality(completedPlans)) ],
       weekly_reports |-> [ reports_in_window |-> Cardinality(reportIds),
                            weeks_with_activity |-> Cardinality(weeksWithActivity),
                            streak_weeks |-> StreakWeeks(weeksWithActivity, thisWeekStart,
                                                         lookbackWeeks, 0),
                            top_blockers |-> TopBlockers(reportIds) ],
       progress_delta |-> MemberProgressDelta(goalIds, lookbackWeeks) ]

\* Math.max(1, Math.min(26, Number(weeks || 8)))
LookbackWeeks(weeks) == Max(1, Min(26, IF IsDefined(weeks) THEN Val(weeks) ELSE 8))

-----------------------------------------------------------------------------
(* The analytics aggregator: the team and organisation rollups.             *)

\* select id from teams
Teams == {"t1", "t2"}

\* the users of a team
TeamMembers(tid) == {u \in DOMAIN Users : Users[u].team_id = tid}

\* goals joined with users: the goals of the members of a team
TeamGoals(tid) == {g \in DOMAIN goals : goals[g].user_id \in TeamMembers(tid)}

\* teamAgg of GET /manager/overview for one team: the action plan counts, the
\* evidence rate to four decimals and the progress delta to two
OverviewTeam(tid) ==
  LET goalIds == TeamGoals(tid)
      teamPlans == {p \in DOMAIN plans : plans[p].goal_id \in goalIds}
      completed == {p \in teamPlans : plans[p].status = "Completed"}
      completedWithEvidence == {p \in completed : HasText(plans[p].evidence_link)}
      v == ProgressValues(goalIds, 14)
      d == [g \in goalIds |-> v.cur[g] - v.prev[g]]
  IN [ goals_total |-> Cardinality(goalIds),
       action_plans |->
         [ total |-> Cardinality(teamPlans),
           completed |-> Cardinality(completed),
           completed_with_evidence |-> Cardinality(completedWithEvidence),
           evidence_rate |-> ToFixed(EvidenceRate(Cardinality(completedWithEvidence),
                                                  Cardinality(completed)), 10000) ],
       progress_delta |->
         IF goalIds = {} THEN NullNumber
         ELSE NumberOf(ToFixed(Quotient(SumOver(d, goalIds), Cardinality(goalIds)), 100)) ]

\* org of GET /manager/overview: the sums over the teams and their rate
OverviewOrg(perTeam) ==
  LET completed == SumOver([t \in Teams |-> perTeam[t].action_plans.completed], Teams)
      completedWithEvidence ==
        SumOver([t \in Teams |-> perTeam[t].action_plans.completed_with_evidence], Teams)
  IN [ goals_total |-> SumOver([t \in Teams |-> perTeam[t].goals_total], Teams),
       action_plans |->
         [ total |-> SumOver([t \in Teams |-> perTeam[t].action_plans.total], Teams),
           completed |-> completed,
           completed_with_evidence |-> completedWithEvidence,
           evidence_rate |-> ToFixed(EvidenceRate(completedWithEvidence, completed), 10000) ],
       progress_delta |-> NullNumber ]

\* GET /manager/overview without team_id
ManagerOverview ==
  LET perTeam == [t \in Teams |-> OverviewTeam(t)]
  IN [per_team |-> perTeam, org |-> OverviewOrg(perTeam)]

\* weekly_reports of one member in GET /manager/team-members/summary
SummaryMember(userId, lookbackWeeks) ==
  LET thisWeekStart == startOfWeekMonday(server.now)
      fromStr == toDateOnly(thisWeekStart - (lookbackWeeks - 1) * 7 * Day)
      toStr == toDateOnly(server.now)
      selected == { r \in DOMAIN reports : /\ reports[r].goal_id \in DOMAIN goals
                                           /\ goals[reports[r].goal_id].user_id = userId
                                           /\ reports[r].date # NullDate
                                           /\ reports[r].date >= fromStr
                                           /\ reports[r].date <= toStr }
      set == WeeksWithActivity(selected)
  IN [ reports_in_window |-> Cardinality(selected),
       weeks_with_activity |-> Cardinality(set),
       streak_weeks |-> IF set = {} THEN 0
                        ELSE StreakWeeks(set, thisWeekStart, lookbackWeeks, 0) ]

\* GET /manager/team-members/summary
TeamMembersSummary(teamId, lookbackWeeks) ==
  [u \in TeamMembers(teamId) |-> [weekly_reports |-> SummaryMember(u, lookbackWeeks)]]

-----------------------------------------------------------------------------
(* The paging scan of GET /leader/goals/summary.  scan is the position of   *)
(* the handler in its loop: the offset of the next page, the rows counted   *)
(* and the page requests sent.                                              *)

pageLimit == 500
\* if (offset > 100000) break
OffsetCeiling == 100000
\* the gateway is sent at most MaxRequests page requests of one scan
MaxRequests == 210

NoScan == [pc |-> "idle", offset |-> 0, total |-> 0, requests |-> 0]

\* rows.length of a page: empty, short, or full
PageSizes == {0, 1, pageLimit}

\* fault: the loop ends on a short page only
ScanEnds_NoCeiling(rows, offset) == rows < pageLimit

\* if (rows.length < pageLimit) break; offset += pageLimit;
\* if (offset > 100000) break
ScanEnds(rows, offset) == rows < pageLimit \/ offset + pageLimit > OffsetCeiling

\* one turn of while (true): the page is counted, the loop ends or moves on
ScanPage(sc, rows) ==
  [ pc |-> IF ScanEnds(rows, sc.offset) THEN "done" ELSE "request",
    offset |-> IF rows < pageLimit THEN sc.offset ELSE sc.offset + pageLimit,
    total |-> sc.total + rows,
    requests |-> sc.requests + 1 ]

-----------------------------------------------------------------------------
(* Batch fetches: the queries of a dashboard request that filter by a list  *)
(* of ids.  gateway.sent is the id list of each such query sent so far.     *)

\* chunk(ids, 200)
BatchSize == 200
\* the longest id list of a request
MaxIds == 402

NoFetch == [pc |-> "idle", ids |-> << >>, batches |-> << >>, sent |-> << >>]

\* the list of n ids of the rows a request selects first
IdList(n) == [i \in 1..n |-> i]

\* for (let i = 0; i < arr.length; i += size) out.push(arr.slice(i, i + size))
RECURSIVE chunk(_, _)
chunk(arr, size) ==
  IF Len(arr) = 0 THEN << >>
  ELSE LET k == IF size < Len(arr) THEN size ELSE Len(arr)
       IN <<SubSeq(arr, 1, k)>> \o chunk(SubSeq(arr, k + 1, Len(arr)), size)

\* one query with the filter "in (ids)" on a table
Query(table, ids) == [table |-> table, ids |-> ids]

\* GET /manager/member-insights, 3): the reports are fetched in batches
InsightsReportBatches(goalIds) ==
  IF Len(goalIds) > 0 THEN chunk(goalIds, BatchSize) ELSE << >>

\* GET /manager/member-insights, 4): the history query of the progress delta
InsightsHistoryQueries(goalIds) ==
  IF Len(goalIds) > 0 THEN <<Query("goal_progress_history", goalIds)>> ELSE << >>

\* GET /manager/team-members/trends: the reports are fetched in batches
TrendsBatches(memberIds) == chunk(memberIds, BatchSize)

-----------------------------------------------------------------------------
(* Requests in progress.  A handler runs from one gateway call to the next  *)
(* without interruption and is suspended at each await; inflight[s] is the  *)
(* handler of connection s: the statement it is suspended at and what it    *)
(* has read or computed so far.  The gateway executes one statement at a    *)
(* time.                                                                    *)

\* the connections requests arrive on
Slots == {"r1", "r2"}

Idle == [op |-> "none", pc |-> "idle"]
Done(op, code) == [op |-> op, pc |-> "done", code |-> code]
Free(s) == inflight[s].pc \in {"idle", "done"}

\* the bodies of a member's deadline proposal
ProposalBodies == {b \in PlanBodies : Keys(b) = {"end_date"} /\ IsDateString(b.end_date)}

\* the decisions a leader sends while proposals arrive
RaceReviewBodies ==
  {b \in PlanReviewBodies : b.status \in {Some("Approved"), Some("Rejected")}
                              /\ ~IsDefined(b.comment)}

\* the decisions a leader sends while the owner's requests arrive
RaceGoalReviewBodies == {b \in GoalReviewBodies : b.status \in {Some("Approved"), Some("Rejected")}}

\* DELETE /goals/:id, the checks on the goal selected: the status code the
\* handler answers with, or 0 when it goes on to the delete
DeleteGoalChecks(caller, id) ==
  IF id \notin DOMAIN goals THEN 404
  ELSE IF goals[id].user_id # caller.sub THEN 403
  ELSE IF goals[id].is_locked THEN 423
  ELSE 0

\* POST /goals/:id/request-review, the checks on the goal selected
RequestReviewGoalChecks(caller, id) ==
  IF id \notin DOMAIN goals THEN 404
  ELSE IF goals[id].user_id # caller.sub THEN 403
  ELSE IF goals[id].review_status = "Approved" THEN 409
  ELSE 0

\* PUT /leader/goals/:id/review, baseUpdate from the row selected
GoalReviewUpdate(existing, body) ==
  [ review_status |-> body.status,
    is_locked |-> Some(GoalReviewLock(body.status)),
    status |-> Some(GoalReviewNextStatus(body.status, existing.status)) ]

\* PUT /action-plans/:id by a member, from the select of the plan up to the
\* update: the status code the handler answers with, or 0 when it goes on
MemberPlanChecks(plan, body) ==
  IF plan.is_locked /\ plan.review_status = "Pending"
     /\ \E k \in Keys(body) : k # "end_date"
    THEN 423
  ELSE IF plan.review_status = "Pending" /\ IsDefined(body.status)
          /\ Val(body.status) # plan.status
    THEN 409
  ELSE IF IsDeadlineChange(plan, body) /\ QuotaExceeded(plan) THEN 409
  ELSE IF Keys(MemberPlanUpdates(plan, body)) = {} THEN 500
  ELSE 0

-----------------------------------------------------------------------------
(* The service: one action per endpoint.  resp is the last request's        *)
(* endpoint, caller and status code.                                        *)

Response(op, caller, id, r) == [op |-> op, sub |-> caller.sub, id |-> id, code |-> r.code]

NoRequest == [op |-> "none", sub |-> NULL, id |-> NULL, code |-> 0]

DoPostGoal ==
  \E c \in Creators, id \in GoalIds, b \in GoalBodies :
    LET r == PostGoal(c, id, b)
    IN /\ goals' = r.goals
       /\ plans' = r.plans
       /\ resp' = Response("PostGoal", c, id, r)
       /\ UNCHANGED <<verification, aggregation, suspended>>
       /\ UNCHANGED reports

DoPutGoal ==
  \E c \in Callers, id \in GoalIds, b \in GoalBodies :
    LET r == PutGoal(c, id, b)
    IN /\ goals' = r.goals
       /\ plans' = r.plans
       /\ resp' = Response("PutGoal", c, id, r)
       /\ UNCHANGED <<verification, aggregation, suspended>>
       /\ UNCHANGED reports

DoRequestReviewGoal ==
  \E c \in Callers, id \in GoalIds :
    LET r == RequestReviewGoal(c, id)
    IN /\ goals' = r.goals
       /\ plans' = r.plans
       /\ resp' = Response("RequestReviewGoal", c, id, r)
       /\ UNCHANGED <<verification, aggregation, suspended>>
       /\ UNCHANGED reports

DoCancelReviewGoal ==
  \E c \in Callers, id \in GoalIds :
    LET r == CancelReviewGoal(c, id)
    IN /\ goals' = r.goals
       /\ plans' = r.plans
       /\ resp' = Response("CancelReviewGoal", c, id, r)
       /\ UNCHANGED <<verification, aggregation, suspended>>
       /\ UNCHANGED reports

DoDeleteGoal ==
  \E c \in Callers, id \in GoalIds, cascade \in BOOLEAN :
    LET r == DeleteGoal(c, id, cascade)
    IN /\ goals' = r.goals
       /\ plans' = r.plans
       /\ resp' = Response("DeleteGoal", c, id, r)
       /\ UNCHANGED <<verification, aggregation, suspended>>
       /\ reports' = IF cascade /\ r.code = 200
                       THEN [w \in {x \in DOMAIN reports : reports[x].goal_id # id} |-> reports[w]]
                       ELSE reports

DoReviewGoal ==
  \E c \in Callers, id \in GoalIds, b \in GoalReviewBodies :
    LET r == ReviewGoal(c, id, b)
    IN /\ goals' = r.goals
       /\ plans' = r.plans
       /\ resp' = Response("ReviewGoal", c, id, r)
       /\ UNCHANGED <<verification, aggregation, suspended>>
       /\ UNCHANGED reports

DoLeaderPutGoal ==
  \E c \in Callers, id \in GoalIds, b \in GoalBodies :
    LET r == LeaderPutGoal(c, id, b)
    IN /\ goals' = r.goals
       /\ plans' = r.plans
       /\ resp' = Response("LeaderPutGoal", c, id, r)
       /\ UNCHANGED <<verification, aggregation, suspended>>
       /\ UNCHANGED reports

DoPostActionPlan ==
  \E c \in Callers, g \in GoalIds, id \in PlanIds, b \in NewPlanBodies :
    LET r == PostActionPlan(c, g, id, b)
    IN /\ goals' = r.goals
       /\ plans' = r.plans
       /\ resp' = Response("PostActionPlan", c, id, r)
       /\ UNCHANGED <<verification, aggregation, suspended>>
       /\ UNCHANGED reports

DoDeleteActionPlan ==
  \E c \in Callers, id \in PlanIds, cascade \in BOOLEAN :
    LET r == DeleteActionPlan(c, id)
    IN /\ goals' = r.goals
       /\ plans' = r.plans
       /\ resp' = Response("DeleteActionPlan", c, id, r)
       /\ UNCHANGED <<verification, aggregation, suspended>>
       /\ reports' = IF cascade /\ r.code = 200
                       THEN [w \in {x \in DOMAIN reports : reports[x].action_plan_id # id} |-> reports[w]]
                       ELSE reports

DoPutActionPlan ==
  \E c \in Callers, id \in PlanIds, b \in PlanBodies :
    LET r == PutActionPlan(c, id, b)
    IN /\ goals' = r.goals
       /\ plans' = r.plans
       /\ resp' = Response("PutActionPlan", c, id, r)
       /\ UNCHANGED <<verification, aggregation, suspended>>
       /\ UNCHANGED reports

\* PUT /action-plans/:id with a goal_id in the body
DoReassignActionPlan ==
  \E c \in Callers, id \in PlanIds, b \in ReassignBodies :
    LET r == PutActionPlan(c, id, b)
    IN /\ goals' = r.goals
       /\ plans' = r.plans
       /\ resp' = Response("ReassignActionPlan", c, id, r)
       /\ UNCHANGED <<verification, aggregation, suspended>>
       /\ UNCHANGED reports

DoRequestReviewPlan ==
  \E c \in Callers, id \in PlanIds :
    LET r == RequestReviewPlan(c, id)
    IN /\ goals' = r.goals
       /\ plans' = r.plans
       /\ resp' = Response("RequestReviewPlan", c, id, r)
       /\ UNCHANGED <<verification, aggregation, suspended>>
       /\ UNCHANGED reports

DoCancelReviewPlan ==
  \E c \in Callers, id \in PlanIds :
    LET r == CancelReviewPlan(c, id)
    IN /\ goals' = r.goals
       /\ plans' = r.plans
       /\ resp' = Response("CancelReviewPlan", c, id, r)
       /\ UNCHANGED <<verification, aggregation, suspended>>
       /\ UNCHANGED reports

DoReviewActionPlan ==
  \E c \in Callers, id \in PlanIds, b \in PlanReviewBodies :
    LET r == ReviewActionPlan(c, id, b)
    IN /\ goals' = r.goals
       /\ plans' = r.plans
       /\ resp' = Response("ReviewActionPlan", c, id, r)
       /\ UNCHANGED <<verification, aggregation, suspended>>
       /\ UNCHANGED reports

\* the response of a decision, with the number of updates it submitted
AuditedResponse(op, caller, id, r) ==
  [op |-> op, sub |-> caller.sub, id |-> id, code |-> r.code,
   attempts |-> Len(r.attempts)]

\* the decisions pass requireLeader before they reach the store
DoReviewGoalAudited ==
  \E c \in Leaders, id \in GoalIds, b \in DecisionBodies, profile \in Profiles,
     first \in StoreOutcomes, second \in StoreOutcomes :
    LET r == ReviewGoalAudited(c, id, b, profile, first, second)
    IN /\ goals' = r.goals
       /\ plans' = r.plans
       /\ resp' = AuditedResponse("ReviewGoal", c, id, r)
       /\ UNCHANGED <<verification, aggregation, suspended>>
       /\ UNCHANGED reports

DoReviewActionPlanAudited ==
  \E c \in Leaders, id \in PlanIds, b \in DecisionBodies, profile \in Profiles,
     first \in StoreOutcomes, second \in StoreOutcomes :
    LET r == ReviewActionPlanAudited(c, id, b, profile, first, second)
    IN /\ goals' = r.goals
       /\ plans' = r.plans
       /\ resp' = AuditedResponse("ReviewActionPlan", c, id, r)
       /\ UNCHANGED <<verification, aggregation, suspended>>
       /\ UNCHANGED reports

DoPostWeeklyReport ==
  \E c \in Callers, p \in PlanIds, id \in ReportIds, b \in ReportBodies :
    LET r == PostWeeklyReport(c, p, id, b)
    IN /\ reports' = r.reports
       /\ resp' = Response("PostWeeklyReport", c, id, r)
       /\ UNCHANGED <<verification, aggregation, suspended>>
       /\ UNCHANGED <<goals, plans>>

DoPutWeeklyReport ==
  \E c \in Callers, id \in ReportIds, b \in ReportBodies :
    LET r == PutWeeklyReport(c, id, b)
    IN /\ reports' = r.reports
       /\ resp' = Response("PutWeeklyReport", c, id, r)
       /\ UNCHANGED <<verification, aggregation, suspended>>
       /\ UNCHANGED <<goals, plans>>

DoDeleteWeeklyReport ==
  \E c \in Callers, id \in ReportIds :
    LET r == DeleteWeeklyReport(c, id)
    IN /\ reports' = r.reports
       /\ resp' = Response("DeleteWeeklyReport", c, id, r)
       /\ UNCHANGED <<verification, aggregation, suspended>>
       /\ UNCHANGED <<goals, plans>>

\* a request gets an id no request has
DoPostVerificationRequest ==
  \E c \in Callers, g \in GoalIds :
    \E id \in RequestIds \ DOMAIN verification_requests :
      LET r == PostVerificationRequest(c, id, g)
      IN /\ verification_requests' = r.requests
         /\ verification_reviews' = r.reviews
         /\ resp' = Response("PostVerificationRequest", c, id, r)
         /\ UNCHANGED <<goals, plans, reports, aggregation, suspended>>

DoReviewVerification ==
  \E c \in Callers \cup OutsideLeaders, id \in RequestIds, b \in VerificationBodies :
    LET r == ReviewVerification(c, id, b)
    IN /\ verification_requests' = r.requests
       /\ verification_reviews' = r.reviews
       /\ resp' = Response("ReviewVerification", c, id, r)
       /\ UNCHANGED <<goals, plans, reports, aggregation, suspended>>

\* the values of the query parameter weeks
WeeksInputs == Opt({4})

\* the users a rollup is asked for: two members of team t1, the second
\* without a goal, and a user of team t2
InsightSubjects == {"u1", "u2", "l2"}

\* GET /manager/member-insights?user_id=&weeks=
DoMemberInsights ==
  \E c \in Managers, u \in InsightSubjects, w \in WeeksInputs :
    /\ resp' = [ op |-> "MemberInsights", sub |-> c.sub, id |-> u, code |-> 200,
                 weeks |-> LookbackWeeks(w),
                 data |-> computeMemberInsights(u, LookbackWeeks(w)) ]
    /\ UNCHANGED <<goals, plans, reports, verification, aggregation, suspended>>

\* GET /manager/overview
DoManagerOverview ==
  \E c \in Managers :
    /\ resp' = [ op |-> "ManagerOverview", sub |-> c.sub, id |-> NULL, code |-> 200,
                 weeks |-> 8, data |-> ManagerOverview ]
    /\ UNCHANGED <<goals, plans, reports, verification, aggregation, suspended>>

\* GET /manager/team-members/summary?team_id=&weeks=
DoTeamMembersSummary ==
  \E c \in Managers, t \in Teams, w \in WeeksInputs :
    /\ resp' = [ op |-> "TeamMembersSummary", sub |-> c.sub, id |-> t, code |-> 200,
                 weeks |-> LookbackWeeks(w),
                 data |-> TeamMembersSummary(t, LookbackWeeks(w)) ]
    /\ UNCHANGED <<goals, plans, reports, verification, aggregation, suspended>>

\* GET /leader/goals/summary: the handler enters its loop
DoGoalsSummary ==
  \E c \in Leaders :
    /\ scan.pc = "idle"
    /\ scan' = [NoScan EXCEPT !.pc = "request"]
    /\ resp' = [op |-> "GoalsSummary", sub |-> c.sub, id |-> NULL, code |-> 0]
    /\ UNCHANGED <<goals, plans, reports, verification, goal_progress_history, server, suspended>>

\* the gateway answers the page request with a page of rows
DoGoalsPage ==
  \E rows \in PageSizes :
    /\ scan.pc = "request"
    /\ scan.requests < MaxRequests
    /\ scan' = ScanPage(scan, rows)
    /\ UNCHANGED <<goals, plans, reports, verification, goal_progress_history, server, suspended, resp>>

\* the gateway answers the page request with an error: 500
DoGoalsPageError ==
  /\ scan.pc = "request"
  /\ scan.requests < MaxRequests
  /\ scan' = [scan EXCEPT !.pc = "failed", !.requests = @ + 1]
  /\ resp' = [resp EXCEPT !.code = 500]
  /\ UNCHANGED <<goals, plans, reports, verification, goal_progress_history, server, suspended>>

\* res.json({ data: { total, ... } })
DoGoalsSummaryAnswer ==
  /\ scan.pc = "done"
  /\ scan' = [scan EXCEPT !.pc = "answered"]
  /\ resp' = [resp EXCEPT !.code = 200]
  /\ UNCHANGED <<goals, plans, reports, verification, goal_progress_history, server, suspended>>

\* GET /manager/member-insights (src/unnamed/part_000): the goal ids of the
\* member are selected and the report batches are laid out
DoMemberInsightsFetch ==
  \E n \in 0..MaxIds :
    /\ gateway.pc \in {"idle", "answered"}
    /\ gateway' = [ pc |-> "reports", ids |-> IdList(n),
                    batches |-> InsightsReportBatches(IdList(n)), sent |-> << >> ]
    /\ UNCHANGED <<goals, plans, reports, verification, aggregation, inflight, accepted, resp>>

\* one turn of for (const batch of chunk(goalIds, 200))
DoInsightsReportsBatch ==
  /\ gateway.pc = "reports"
  /\ gateway.batches # << >>
  /\ gateway' = [gateway EXCEPT
                   !.sent = Append(@, Query("weekly_reports", Head(gateway.batches))),
                   !.batches = Tail(@)]
  /\ UNCHANGED <<goals, plans, reports, verification, aggregation, inflight, accepted, resp>>

\* after the loop: the history query, and the answer
DoInsightsHistory ==
  \E c \in Managers :
    /\ gateway.pc = "reports"
    /\ gateway.batches = << >>
    /\ gateway' = [gateway EXCEPT !.sent = @ \o InsightsHistoryQueries(gateway.ids),
                                  !.pc = "answered"]
    /\ resp' = [op |-> "MemberInsightsFetch", sub |-> c.sub, id |-> NULL, code |-> 200]
    /\ UNCHANGED <<goals, plans, reports, verification, aggregation, inflight, accepted>>

\* GET /manager/team-members/trends: the member ids of the team are selected;
\* a team without members is answered at once
DoTrendsFetch ==
  \E c \in Managers, n \in 0..MaxIds :
    /\ gateway.pc \in {"idle", "answered"}
    /\ gateway' = [ pc |-> IF n = 0 THEN "answered" ELSE "trends", ids |-> IdList(n),
                    batches |-> IF n = 0 THEN << >> ELSE TrendsBatches(IdList(n)),
                    sent |-> << >> ]
    /\ resp' = IF n = 0
                 THEN [op |-> "Trends", sub |-> c.sub, id |-> NULL, code |-> 200]
                 ELSE resp
    /\ UNCHANGED <<goals, plans, reports, verification, aggregation, inflight, accepted>>

\* one turn of for (const batch of chunk(memberIds, 200)); the answer follows
\* the last one
DoTrendsBatch ==
  \E c \in Managers :
    /\ gateway.pc = "trends"
    /\ gateway.batches # << >>
    /\ gateway' = [gateway EXCEPT
                     !.sent = Append(@, Query("weekly_reports", Head(gateway.batches))),
                     !.batches = Tail(@),
                     !.pc = IF Len(gateway.batches) = 1 THEN "answered" ELSE "trends"]
    /\ resp' = IF Len(gateway.batches) = 1
                 THEN [op |-> "Trends", sub |-> c.sub, id |-> NULL, code |-> 200]
                 ELSE resp
    /\ UNCHANGED <<goals, plans, reports, verification, aggregation, inflight, accepted>>

\* PUT /action-plans/:id with a deadline proposal: the request arrives and
\* assertCanAccessActionPlan answers
DoPutActionPlanAccess ==
  \E s \in Slots, c \in Members, id \in PlanIds, b \in ProposalBodies :
    LET access == assertCanAccessActionPlan(c, id)
    IN /\ Free(s)
       /\ inflight' = [inflight EXCEPT ![s] =
                         IF access # 0 THEN Done("PutActionPlan", access)
                         ELSE [ op |-> "PutActionPlan", pc |-> "select",
                                sub |-> c.sub, id |-> id, body |-> b ]]
       /\ resp' = IF access # 0
                    THEN Response("PutActionPlan", c, id, [code |-> access])
                    ELSE resp
       /\ UNCHANGED <<goals, plans, reports, verification, aggregation, gateway, accepted>>

\* PUT /action-plans/:id: the plan is selected, the request is checked
\* against the row read and the update is computed from it
DoPutActionPlanSelect ==
  \E s \in Slots :
    LET rq == inflight[s]
        code == IF rq.id \notin DOMAIN plans THEN 404
                ELSE MemberPlanChecks(plans[rq.id], rq.body)
    IN /\ rq.op = "PutActionPlan" /\ rq.pc = "select"
       /\ inflight' = [inflight EXCEPT ![s] =
                         IF code # 0 THEN Done("PutActionPlan", code)
                         ELSE [ op |-> "PutActionPlan", pc |-> "update",
                                sub |-> rq.sub, id |-> rq.id,
                                updates |-> MemberPlanUpdates(plans[rq.id], rq.body) ]]
       /\ resp' = IF code # 0
                    THEN [op |-> "PutActionPlan", sub |-> rq.sub, id |-> rq.id, code |-> code]
                    ELSE resp
       /\ UNCHANGED <<goals, plans, reports, verification, aggregation, gateway, accepted>>

\* PUT /action-plans/:id: the update is executed and the request answered
DoPutActionPlanUpdate ==
  \E s \in Slots :
    LET rq == inflight[s]
    IN /\ rq.op = "PutActionPlan" /\ rq.pc = "update"
       /\ plans' = IF rq.id \in DOMAIN plans
                     THEN [plans EXCEPT ![rq.id] = UpdateRow(@, rq.updates)]
                     ELSE plans
       /\ accepted' = IF IsDefined(rq.updates.request_deadline_date)
                        THEN [accepted EXCEPT ![rq.id] = @ + 1]
                        ELSE accepted
       /\ inflight' = [inflight EXCEPT ![s] = Done("PutActionPlan", 200)]
       /\ resp' = [op |-> "PutActionPlan", sub |-> rq.sub, id |-> rq.id, code |-> 200]
       /\ UNCHANGED <<goals, reports, verification, aggregation, gateway>>

\* PUT /leader/action-plans/:id/review: the request arrives, the plan is
\* selected and the update is computed from the row read
DoReviewActionPlanSelect ==
  \E s \in Slots, c \in Leaders, id \in PlanIds, b \in RaceReviewBodies :
    /\ Free(s)
    /\ inflight' = [inflight EXCEPT ![s] =
                      IF id \notin DOMAIN plans THEN Done("ReviewActionPlan", 404)
                      ELSE [ op |-> "ReviewActionPlan", pc |-> "update",
                             sub |-> c.sub, id |-> id,
                             updates |-> PlanReviewUpdate(plans[id], b) ]]
    /\ resp' = IF id \notin DOMAIN plans
                 THEN Response("ReviewActionPlan", c, id, [code |-> 404])
                 ELSE resp
    /\ UNCHANGED <<goals, plans, reports, verification, aggregation, gateway, accepted>>

\* PUT /leader/action-plans/:id/review: after getReviewerIdentity, the update
\* is executed and the request answered
DoReviewActionPlanUpdate ==
  \E s \in Slots :
    LET rq == inflight[s]
    IN /\ rq.op = "ReviewActionPlan" /\ rq.pc = "update"
       /\ plans' = IF rq.id \in DOMAIN plans
                     THEN [plans EXCEPT ![rq.id] = UpdateRow(@, rq.updates)]
                     ELSE plans
       /\ inflight' = [inflight EXCEPT ![s] = Done("ReviewActionPlan", 200)]
       /\ resp' = [op |-> "ReviewActionPlan", sub |-> rq.sub, id |-> rq.id, code |-> 200]
       /\ UNCHANGED <<goals, reports, verification, aggregation, gateway, accepted>>

\* DELETE /goals/:id: the request arrives, the goal is selected and checked
DoDeleteGoalSelect ==
  \E s \in Slots, c \in Members, id \in GoalIds :
    LET code == DeleteGoalChecks(c, id)
    IN /\ Free(s)
       /\ inflight' = [inflight EXCEPT ![s] =
                         IF code # 0 THEN Done("DeleteGoal", code)
                         ELSE [op |-> "DeleteGoal", pc |-> "delete", sub |-> c.sub, id |-> id]]
       /\ resp' = IF code # 0 THEN Response("DeleteGoal", c, id, [code |-> code]) ELSE resp
       /\ UNCHANGED <<goals, plans, reports, verification, aggregation, gateway, accepted>>

\* DELETE /goals/:id: the delete is executed and the request answered
DoDeleteGoalDelete ==
  \E s \in Slots, cascade \in BOOLEAN :
    LET rq == inflight[s]
    IN /\ rq.op = "DeleteGoal" /\ rq.pc = "delete"
       /\ goals' = IF rq.id \in DOMAIN goals THEN Drop(goals, rq.id) ELSE goals
       /\ plans' = IF cascade /\ rq.id \in DOMAIN goals
                     THEN [p \in {q \in DOMAIN plans : plans[q].goal_id # rq.id} |-> plans[p]]
                     ELSE plans
       /\ inflight' = [inflight EXCEPT ![s] = Done("DeleteGoal", 200)]
       /\ resp' = [op |-> "DeleteGoal", sub |-> rq.sub, id |-> rq.id, code |-> 200]
       /\ UNCHANGED <<reports, verification, aggregation, gateway, accepted>>

\* POST /goals/:id/request-review: the request arrives, the goal is selected
\* and checked
DoRequestReviewGoalSelect ==
  \E s \in Slots, c \in Members, id \in GoalIds :
    LET code == RequestReviewGoalChecks(c, id)
    IN /\ Free(s)
       /\ inflight' = [inflight EXCEPT ![s] =
                         IF code # 0 THEN Done("RequestReviewGoal", code)
                         ELSE [ op |-> "RequestReviewGoal", pc |-> "anyPlan",
                                sub |-> c.sub, id |-> id ]]
       /\ resp' = IF code # 0 THEN Response("RequestReviewGoal", c, id, [code |-> code]) ELSE resp
       /\ UNCHANGED <<goals, plans, reports, verification, aggregation, gateway, accepted>>

\* POST /goals/:id/request-review: an action plan of the goal is looked up
DoRequestReviewGoalAnyPlan ==
  \E s \in Slots :
    LET rq == inflight[s]
    IN /\ rq.op = "RequestReviewGoal" /\ rq.pc = "anyPlan"
       /\ inflight' = [inflight EXCEPT ![s] =
                         IF ~AnyPlan(rq.id) THEN Done("RequestReviewGoal", 409)
                         ELSE [rq EXCEPT !.pc = "update"]]
       /\ resp' = IF ~AnyPlan(rq.id)
                    THEN [op |-> "RequestReviewGoal", sub |-> rq.sub, id |-> rq.id, code |-> 409]
                    ELSE resp
       /\ UNCHANGED <<goals, plans, reports, verification, aggregation, gateway, accepted>>

\* POST /goals/:id/request-review: the update is executed and the request
\* answered
DoRequestReviewGoalUpdate ==
  \E s \in Slots :
    LET rq == inflight[s]
    IN /\ rq.op = "RequestReviewGoal" /\ rq.pc = "update"
       /\ goals' = IF rq.id \in DOMAIN goals
                     THEN [goals EXCEPT ![rq.id] =
                             UpdateRow(@, [review_status |-> Some("Pending"),
                                           is_locked |-> Some(TRUE)])]
                     ELSE goals
       /\ inflight' = [inflight EXCEPT ![s] = Done("RequestReviewGoal", 200)]
       /\ resp' = [op |-> "RequestReviewGoal", sub |-> rq.sub, id |-> rq.id, code |-> 200]
       /\ UNCHANGED <<plans, reports, verification, aggregation, gateway, accepted>>

\* PUT /leader/goals/:id/review: the request arrives, the goal is selected and
\* the update is computed from the row read
DoReviewGoalSelect ==
  \E s \in Slots, c \in Leaders, id \in GoalIds, b \in RaceGoalReviewBodies :
    /\ Free(s)
    /\ inflight' = [inflight EXCEPT ![s] =
                      IF id \notin DOMAIN goals THEN Done("ReviewGoal", 404)
                      ELSE [ op |-> "ReviewGoal", pc |-> "update", sub |-> c.sub, id |-> id,
                             updates |-> GoalReviewUpdate(goals[id], b) ]]
    /\ resp' = IF id \notin DOMAIN goals
                 THEN Response("ReviewGoal", c, id, [code |-> 404])
                 ELSE resp
    /\ UNCHANGED <<goals, plans, reports, verification, aggregation, gateway, accepted>>

\* PUT /leader/goals/:id/review: after getReviewerIdentity, the update is
\* executed and the request answered
DoReviewGoalUpdate ==
  \E s \in Slots :
    LET rq == inflight[s]
    IN /\ rq.op = "ReviewGoal" /\ rq.pc = "update"
       /\ goals' = IF rq.id \in DOMAIN goals
                     THEN [goals EXCEPT ![rq.id] = UpdateRow(@, rq.updates)]
                     ELSE goals
       /\ inflight' = [inflight EXCEPT ![s] = Done("ReviewGoal", 200)]
       /\ resp' = [op |-> "ReviewGoal", sub |-> rq.sub, id |-> rq.id, code |-> 200]
       /\ UNCHANGED <<plans, reports, verification, aggregation, gateway, accepted>>

\* The goal machine: the goals table under every goal endpoint, with the
\* goal's action plans created and deleted.
Init ==
  /\ goals = << >>
  /\ plans = << >>
  /\ reports = << >>
  /\ verification_requests = << >>
  /\ verification_reviews = << >>
  /\ goal_progress_history = << >>
  /\ server = Epoch
  /\ scan = NoScan
  /\ gateway = NoFetch
  /\ inflight = << >>
  /\ accepted = << >>
  /\ resp = NoRequest

Next ==
  \/ DoPostGoal
  \/ DoPutGoal
  \/ DoRequestReviewGoal
  \/ DoCancelReviewGoal
  \/ DoDeleteGoal
  \/ DoReviewGoal
  \/ DoPostActionPlan
  \/ DoDeleteActionPlan

Spec == Init /\ [][Next]_vars

\* The action plan machine: the plans of a goal that member u1 created and
\* has not yet submitted, under every action plan endpoint.
InitPlan ==
  /\ goals = [g \in GoalIds |-> [DefaultGoal EXCEPT !.user_id = "u1"]]
  /\ plans = << >>
  /\ reports = << >>
  /\ verification_requests = << >>
  /\ verification_reviews = << >>
  /\ goal_progress_history = << >>
  /\ server = Epoch
  /\ scan = NoScan
  /\ gateway = NoFetch
  /\ inflight = << >>
  /\ accepted = << >>
  /\ resp = NoRequest

NextPlan ==
  \/ DoPostActionPlan
  \/ DoPutActionPlan
  \/ DoRequestReviewPlan
  \/ DoCancelReviewPlan
  \/ DoReviewActionPlan
  \/ DoDeleteActionPlan

SpecPlan == InitPlan /\ [][NextPlan]_vars

\* The decision machine: a goal of member u1 and its action plan under the
\* review requests of the member and the decisions of the leader, against a
\* store that can refuse an update.
InitReview ==
  /\ goals = [g \in GoalIds |-> [ReviewedGoal EXCEPT !.user_id = "u1"]]
  /\ plans = [p \in PlanIds |-> [DefaultPlan EXCEPT !.goal_id = "g1", !.end_date = 1]]
  /\ reports = << >>
  /\ verification_requests = << >>
  /\ verification_reviews = << >>
  /\ goal_progress_history = << >>
  /\ server = Epoch
  /\ scan = NoScan
  /\ gateway = NoFetch
  /\ inflight = << >>
  /\ accepted = << >>
  /\ resp = NoRequest

NextReview ==
  \/ DoRequestReviewGoal
  \/ DoRequestReviewPlan
  \/ DoReviewGoalAudited
  \/ DoReviewActionPlanAudited

SpecReview == InitReview /\ [][NextReview]_vars

\* The report machine: a goal of member u1 that is In Progress, with one
\* action plan In Progress or Blocked, under the weekly report endpoints and the
\* creation and deletion of the rows a report hangs on.
InitReport ==
  /\ goals = [g \in GoalIds |-> [DefaultGoal EXCEPT !.user_id = "u1", !.status = "In Progress"]]
  /\ \E st \in {"In Progress", "Blocked"} :
       plans = [p \in PlanIds |-> [DefaultPlan EXCEPT !.goal_id = "g1", !.status = st]]
  /\ reports = << >>
  /\ verification_requests = << >>
  /\ verification_reviews = << >>
  /\ goal_progress_history = << >>
  /\ server = Epoch
  /\ scan = NoScan
  /\ gateway = NoFetch
  /\ inflight = << >>
  /\ accepted = << >>
  /\ resp = NoRequest

NextReport ==
  \/ DoPostWeeklyReport
  \/ DoPutWeeklyReport
  \/ DoDeleteWeeklyReport
  \/ DoPostActionPlan
  \/ DoDeleteActionPlan
  \/ DoDeleteGoal
  \/ DoPostGoal

SpecReport == InitReport /\ [][NextReport]_vars

\* The verification machine: the verification requests for a goal of member
\* u1 and the reviews of the leaders.
InitVerify ==
  /\ goals = [g \in GoalIds |-> [DefaultGoal EXCEPT !.user_id = "u1"]]
  /\ plans = << >>
  /\ reports = << >>
  /\ verification_requests = << >>
  /\ verification_reviews = << >>
  /\ goal_progress_history = << >>
  /\ server = Epoch
  /\ scan = NoScan
  /\ gateway = NoFetch
  /\ inflight = << >>
  /\ accepted = << >>
  /\ resp = NoRequest

NextVerify ==
  \/ DoPostVerificationRequest
  \/ DoReviewVerification

SpecVerify == InitVerify /\ [][NextVerify]_vars

\* The dashboards: the rollups of the manager endpoints over the tables the
\* service can hold.  The endpoints only read, so the tables are drawn at the
\* start: the weekly reports of a member, or the progress history of the
\* goals, or the action plans of two teams.

\* a member has at most MaxReports weekly reports
MaxReports == 4
\* a goal history has at most MaxHistory rows
MaxHistory == 2

\* the days a report is dated: the Mondays of five weeks and two Thursdays
ReportDays == {1, 8, 15, 22, 25, 29, 32}
InsightReportIds == <<"r1", "r2", "r3", "r4", "r5", "r6", "r7">>

\* the wall clock of the server at the request: Monday 03:00 and Thursday
\* 12:00 of the week of day 29
LocalTimes == {29 * Day + 3, 32 * Day + 12}

\* the UTC offsets of the server's zone
TimeZones == {-8, 0, 7}

Rank(d, D) == Cardinality({e \in D : e <= d})

\* the weekly reports of plan p1, one on each day of D
ReportsOn(D, b) ==
  [ id \in {InsightReportIds[Rank(d, D)] : d \in D} |->
      [InsightReport EXCEPT !.goal_id = "g1", !.action_plan_id = "p1",
                            !.date = CHOOSE d \in D : InsightReportIds[Rank(d, D)] = id,
                            !.blockers_challenges = b] ]

RECURSIVE SeqOf(_)
SeqOf(S) ==
  IF S = {} THEN << >>
  ELSE LET x == CHOOSE y \in S : TRUE IN <<x>> \o SeqOf(S \ {x})

\* the rows goal_progress_history can hold: recorded in the week before the
\* request (Thursday 12:00 UTC of the week of day 22) or in its week
HistoryRowsOf(G) ==
  [goal_id : G, progress : {10, 70}, recorded_at : {25 * Day + 12, 30 * Day + 12}]

InitActivity ==
  \E z \in TimeZones, t \in LocalTimes, b \in {NULL, "text"} :
    \E D \in SUBSET ReportDays :
      /\ Cardinality(D) <= MaxReports
      /\ \A d \in D : d * Day <= t
      /\ server = [now |-> t - z, tz |-> z]
      /\ goals = [g \in {"g1"} |->
                    [InsightGoal EXCEPT !.user_id = "u1", !.status = "In Progress"]]
      /\ plans = [p \in {"p1"} |->
                    [InsightPlan EXCEPT !.goal_id = "g1", !.status = "In Progress",
                                        !.end_date = 1]]
      /\ reports = ReportsOn(D, b)
      /\ goal_progress_history = << >>

InitProgress ==
  \E z \in {0}, p \in {0, 40}, rs \in {NULL, "Approved"}, sd \in {NullDate, 1} :
    \E G \in {{"g1"}, {"g1", "g2"}}, o \in {"u1", "l2"} :
      \E H \in SUBSET HistoryRowsOf(G) :
        /\ Cardinality(H) <= MaxHistory
        /\ \A h1, h2 \in H :
             h1.goal_id = h2.goal_id /\ h1.recorded_at = h2.recorded_at => h1 = h2
        /\ G = {"g1"} => o = "u1"
        /\ server = [now |-> 32 * Day + 12 - z, tz |-> z]
        /\ goals = [g \in G |->
                      IF g = "g1"
                        THEN [InsightGoal EXCEPT !.user_id = "u1", !.progress = p,
                                !.review_status = rs, !.start_date = sd,
                                !.time_bound = IF sd = NullDate THEN NullDate ELSE 60]
                        ELSE [InsightGoal EXCEPT !.user_id = o, !.progress = 60]]
        /\ plans = << >>
        /\ reports = << >>
        /\ goal_progress_history = SeqOf(H)

\* the action plans of g1 (member u1, team t1) and g2 (user l2, team t2)
PlanRows ==
  { [InsightPlan EXCEPT !.goal_id = g, !.status = st, !.evidence_link = e] :
      g \in {"g1", "g2"}, st \in {"Completed", "In Progress"}, e \in Texts }

\* a third plan, when there is one, is a completed plan of g1
ThirdPlanRows == {r \in PlanRows : r.goal_id = "g1" /\ r.status = "Completed"}

InitEvidence ==
  \E P \in SUBSET {"p1", "p2", "p3"} :
    \E rows \in [P -> PlanRows] :
      /\ "p3" \in P => rows["p3"] \in ThirdPlanRows
      /\ server = [now |-> 32 * Day + 12, tz |-> 0]
      /\ goals = [g \in {"g1", "g2"} |->
                    [InsightGoal EXCEPT !.user_id = IF g = "g1" THEN "u1" ELSE "l2"]]
      /\ plans = rows
      /\ reports = << >>
      /\ goal_progress_history = << >>

InitInsights ==
  /\ InitActivity \/ InitProgress \/ InitEvidence
  /\ verification_requests = << >>
  /\ verification_reviews = << >>
  /\ scan = NoScan
  /\ gateway = NoFetch
  /\ inflight = << >>
  /\ accepted = << >>
  /\ resp = NoRequest

NextInsights ==
  \/ DoMemberInsights
  \/ DoManagerOverview
  \/ DoTeamMembersSummary

SpecInsights == InitInsights /\ [][NextInsights]_vars

\* The summary scan: one request of a leader for the goals summary, the
\* gateway answering each page request.
InitScan ==
  /\ goals = << >>
  /\ plans = << >>
  /\ reports = << >>
  /\ verification_requests = << >>
  /\ verification_reviews = << >>
  /\ goal_progress_history = << >>
  /\ server = Epoch
  /\ scan = NoScan
  /\ gateway = NoFetch
  /\ inflight = << >>
  /\ accepted = << >>
  /\ resp = NoRequest

NextScan ==
  \/ DoGoalsSummary
  \/ DoGoalsPage
  \/ DoGoalsPageError
  \/ DoGoalsSummaryAnswer

SpecScan == InitScan /\ [][NextScan]_vars

\* the gateway answers every page request it is sent
FairSpecScan == SpecScan /\ WF_vars(DoGoalsPage \/ DoGoalsPageError)

\* The batch fetches: the id-list queries of the member insights and of the
\* team trends, for every length of the id list up to MaxIds.
InitFetch ==
  /\ goals = << >>
  /\ plans = << >>
  /\ reports = << >>
  /\ verification_requests = << >>
  /\ verification_reviews = << >>
  /\ goal_progress_history = << >>
  /\ server = Epoch
  /\ scan = NoScan
  /\ gateway = NoFetch
  /\ inflight = << >>
  /\ accepted = << >>
  /\ resp = NoRequest

NextFetch ==
  \/ DoMemberInsightsFetch
  \/ DoInsightsReportsBatch
  \/ DoInsightsHistory
  \/ DoTrendsFetch
  \/ DoTrendsBatch

SpecFetch == InitFetch /\ [][NextFetch]_vars

\* The deadline race: the action plan of a goal of member u1, with the
\* member's deadline proposals and the leader's decisions arriving on two
\* connections and their statements interleaved.
InitRacePlan ==
  /\ goals = [g \in GoalIds |-> [DefaultGoal EXCEPT !.user_id = "u1"]]
  /\ plans = [p \in PlanIds |-> [DefaultPlan EXCEPT !.goal_id = "g1", !.end_date = 1]]
  /\ reports = << >>
  /\ verification_requests = << >>
  /\ verification_reviews = << >>
  /\ goal_progress_history = << >>
  /\ server = Epoch
  /\ scan = NoScan
  /\ gateway = NoFetch
  /\ inflight = [s \in Slots |-> Idle]
  /\ accepted = [p \in PlanIds |-> 0]
  /\ resp = NoRequest

NextRacePlan ==
  \/ DoPutActionPlanAccess
  \/ DoPutActionPlanSelect
  \/ DoPutActionPlanUpdate
  \/ DoReviewActionPlanSelect
  \/ DoReviewActionPlanUpdate

SpecRacePlan == InitRacePlan /\ [][NextRacePlan]_vars

\* The delete race: a goal of member u1 with one action plan, with the
\* owner's delete and request-review and the leader's decisions arriving on
\* two connections and their statements interleaved.
InitRaceGoal ==
  /\ goals = [g \in GoalIds |-> [DefaultGoal EXCEPT !.user_id = "u1"]]
  /\ plans = [p \in PlanIds |-> [DefaultPlan EXCEPT !.goal_id = "g1", !.end_date = 1]]
  /\ reports = << >>
  /\ verification_requests = << >>
  /\ verification_reviews = << >>
  /\ goal_progress_history = << >>
  /\ server = Epoch
  /\ scan = NoScan
  /\ gateway = NoFetch
  /\ inflight = [s \in Slots |-> Idle]
  /\ accepted = [p \in PlanIds |-> 0]
  /\ resp = NoRequest

NextRaceGoal ==
  \/ DoDeleteGoalSelect
  \/ DoDeleteGoalDelete
  \/ DoRequestReviewGoalSelect
  \/ DoRequestReviewGoalAnyPlan
  \/ DoRequestReviewGoalUpdate
  \/ DoReviewGoalSelect
  \/ DoReviewGoalUpdate

SpecRaceGoal == InitRaceGoal /\ [][NextRaceGoal]_vars

\* The approved goal: a goal of member u1 that a leader's decision has
\* approved, under the goal endpoints of the members and of the leaders.
InitApproved ==
  /\ goals = [g \in GoalIds |->
                [DefaultGoal EXCEPT !.user_id = "u1", !.status = "In Progress",
                                    !.review_status = "Approved", !.is_locked = TRUE]]
  /\ plans = [p \in PlanIds |-> [DefaultPlan EXCEPT !.goal_id = "g1", !.end_date = 1]]
  /\ reports = << >>
  /\ verification_requests = << >>
  /\ verification_reviews = << >>
  /\ goal_progress_history = << >>
  /\ server = Epoch
  /\ scan = NoScan
  /\ gateway = NoFetch
  /\ inflight = << >>
  /\ accepted = << >>
  /\ resp = NoRequest

NextApproved ==
  \/ DoPutGoal
  \/ DoRequestReviewGoal
  \/ DoCancelReviewGoal
  \/ DoDeleteGoal
  \/ DoReviewGoal
  \/ DoLeaderPutGoal

SpecApproved == InitApproved /\ [][NextApproved]_vars

\* The ownership machine: a goal of member u1 with one action plan beside a
\* goal of member u2, under the requests that create and update goals and
\* action plans.
InitOwnership ==
  /\ goals = [g \in GoalIds \cup OtherGoalIds |->
                [DefaultGoal EXCEPT !.user_id = IF g \in GoalIds THEN "u1" ELSE "u2"]]
  /\ plans = [p \in PlanIds |-> [DefaultPlan EXCEPT !.goal_id = "g1", !.end_date = 1]]
  /\ reports = << >>
  /\ verification_requests = << >>
  /\ verification_reviews = << >>
  /\ goal_progress_history = << >>
  /\ server = Epoch
  /\ scan = NoScan
  /\ gateway = NoFetch
  /\ inflight = << >>
  /\ accepted = << >>
  /\ resp = NoRequest

NextOwnership ==
  \/ DoPostGoal
  \/ DoPutGoal
  \/ DoDeleteGoal
  \/ DoReassignActionPlan

SpecOwnership == InitOwnership /\ [][NextOwnership]_vars

-----------------------------------------------------------------------------
(* Properties of the review/lock state machine.                             *)

\* the callers that are the owner of goal g
OwnersOf(g) == {c \in Callers : c.sub = goals[g].user_id}

\* the members that pass the access guard of plan p
PlanMembers(p) == {c \in Members : assertCanAccessActionPlan(c, p) = 0}

\* request_deadline_date if one is outstanding, otherwise end_date
EffectiveDeadline(plan) ==
  IF plan.request_deadline_date # NullDate THEN plan.request_deadline_date ELSE plan.end_date

\* body proposes the date string D, and D is not the effective deadline of plan
ProposesChange(plan, body) ==
  /\ IsDefined(body.end_date)
  /\ Val(body.end_date) \in Dates
  /\ Val(body.end_date) # EffectiveDeadline(plan)

\* the pending-review checks of PUT /action-plans/:id reject body
LockedOut(plan, body) ==
  plan.is_locked /\ plan.review_status = "Pending" /\ Keys(body) \ {"end_date"} # {}
StatusFrozen(plan, body) ==
  plan.review_status = "Pending" /\ IsDefined(body.status) /\ Val(body.status) # plan.status

\* C1: in every reachable state of the goal machine, a goal whose
\* review_status is "Pending" has is_locked = true.
C1_PendingGoalIsLocked ==
  \A g \in DOMAIN goals : goals[g].review_status = "Pending" => goals[g].is_locked

\* C2: over every step that is not a leader's own update of the plan, an action
\* plan's deadline_change_count does not decrease, and a step that changes it
\* leaves it at most 3.
C2_CountMonotoneCapped ==
  [][ (resp'.op = "PutActionPlan" => resp'.sub \in {c.sub : c \in Members})
      => \A p \in DOMAIN plans \cap DOMAIN plans' :
           /\ plans'[p].deadline_change_count >= plans[p].deadline_change_count
           /\ plans'[p].deadline_change_count # plans[p].deadline_change_count
                => plans'[p].deadline_change_count <= 3 ]_vars

\* C3 as claimed: a member's proposal of a changed deadline on a plan whose
\* deadline_change_count is >= 3 is answered 409 and changes no field.
C3_QuotaAnswers409 ==
  \A p \in DOMAIN plans : \A c \in PlanMembers(p), b \in PlanBodies :
    (ProposesChange(plans[p], b) /\ plans[p].deadline_change_count >= 3)
      => LET r == PutActionPlan(c, p, b)
         IN r.code = 409 /\ r.plans = plans /\ r.goals = goals

\* C3 as amended: such a proposal is rejected and changes no field; it is
\* answered 423 when the plan is locked and Pending and the body carries a key
\* other than end_date, and 409 in every other case.
C3_QuotaRejects ==
  \A p \in DOMAIN plans : \A c \in PlanMembers(p), b \in PlanBodies :
    (ProposesChange(plans[p], b) /\ plans[p].deadline_change_count >= 3)
      => LET r == PutActionPlan(c, p, b)
         IN /\ r.code = IF LockedOut(plans[p], b) THEN 423 ELSE 409
            /\ r.plans = plans
            /\ r.goals = goals

\* C3 witness: the owner's proposal was answered 409 on a plan that has used
\* its three changes and is not under review (so the quota is what rejected it).
C3_Witness ==
  /\ resp.op = "PutActionPlan" /\ resp.code = 409 /\ resp.sub = "u1"
  /\ resp.id \in DOMAIN plans
  /\ plans[resp.id].deadline_change_count = 3
  /\ plans[resp.id].review_status = "Approved"

\* C4: no update of an action plan by a member changes the stored end_date,
\* whatever the body and the plan's state.
C4_MemberNeverWritesEndDate ==
  \A p \in DOMAIN plans : \A c \in Members, b \in PlanBodies :
    PutActionPlan(c, p, b).plans[p].end_date = plans[p].end_date

\* the plan a member's accepted proposal of date D leaves
IsProposed(old, new, D) ==
  /\ new.request_deadline_date = D
  /\ new.deadline_change_count = old.deadline_change_count + 1
  /\ new.review_status = "Pending"
  /\ new.is_locked
  /\ new.leader_review_notes = NULL
  /\ new.end_date = old.end_date

\* C5 as claimed: a member's proposal of a changed deadline D on a plan with
\* deadline_change_count c < 3 leaves request_deadline_date = D, the count
\* c + 1, review_status Pending, is_locked, the notes cleared, end_date as before.
C5_ProposalAlwaysRecorded ==
  \A p \in DOMAIN plans : \A c \in PlanMembers(p), b \in PlanBodies :
    (ProposesChange(plans[p], b) /\ plans[p].deadline_change_count < 3)
      => IsProposed(plans[p], PutActionPlan(c, p, b).plans[p], Val(b.end_date))

\* C5 as amended: the same, for a body the pending-review checks let through
\* (on a locked Pending plan no key other than end_date, on a Pending plan no
\* status other than the current one); a body they stop is answered 423 or 409
\* and changes nothing.
C5_ProposalRecorded ==
  \A p \in DOMAIN plans : \A c \in PlanMembers(p), b \in PlanBodies :
    (ProposesChange(plans[p], b) /\ plans[p].deadline_change_count < 3)
      => LET r == PutActionPlan(c, p, b)
         IN IF LockedOut(plans[p], b) THEN r.code = 423 /\ r.plans = plans
            ELSE IF StatusFrozen(plans[p], b) THEN r.code = 409 /\ r.plans = plans
            ELSE r.code = 200 /\ IsProposed(plans[p], r.plans[p], Val(b.end_date))

\* C5 witness: the owner's second proposal was accepted: the plan is Pending and
\* locked with the proposed date outstanding and the stored deadline untouched.
C5_Witness ==
  /\ resp.op = "PutActionPlan" /\ resp.code = 200 /\ resp.sub = "u1"
  /\ resp.id \in DOMAIN plans
  /\ plans[resp.id].deadline_change_count = 2
  /\ plans[resp.id].review_status = "Pending"
  /\ plans[resp.id].is_locked
  /\ plans[resp.id].request_deadline_date \in Dates
  /\ plans[resp.id].end_date # plans[resp.id].request_deadline_date

\* C6 as claimed: a leader decision S leaves review_status = S and is_locked
\* false for Approved, Rejected and Cancelled, true for every other S; approving
\* a "Not started" goal leaves it "In Progress", unlocked and Approved.
C6_ApprovedUnlocks ==
  \A g \in DOMAIN goals : \A c \in Leaders, S \in ReviewDecisions :
    LET new == ReviewGoal(c, g, [status |-> Some(S)]).goals[g]
    IN /\ new.review_status = S
       /\ new.is_locked = (S \notin {"Approved", "Rejected", "Cancelled"})
       /\ (S = "Approved" /\ goals[g].status = "Not started")
            => new.status = "In Progress"

\* C6 as amended: a leader decision S leaves review_status = S and is_locked
\* false for Rejected and Cancelled only, true for Approved, Pending and every
\* other S; approving a "Not started" goal leaves it "In Progress", locked and
\* Approved.
C6_DecisionSetsLock ==
  \A g \in DOMAIN goals : \A c \in Leaders, S \in ReviewDecisions :
    LET r == ReviewGoal(c, g, [status |-> Some(S)])
        new == r.goals[g]
    IN /\ r.code = 200
       /\ new.review_status = S
       /\ new.is_locked = (S \notin {"Rejected", "Cancelled"})
       /\ (S = "Approved" /\ goals[g].status = "Not started")
            => new.status = "In Progress"

\* C6 witness: a leader has approved a goal, which is now In Progress,
\* Approved and locked.
C6_Witness ==
  /\ resp.op = "ReviewGoal" /\ resp.code = 200
  /\ resp.id \in DOMAIN goals
  /\ goals[resp.id].review_status = "Approved"
  /\ goals[resp.id].status = "In Progress"
  /\ goals[resp.id].is_locked

\* the goal an applied member edit leaves: progress clamped into 0..100,
\* status Completed at 100 and else as sent, review_status, is_locked and
\* user_id as they were
IsEdited(old, new, body) ==
  LET p == IF IsDefined(body.progress) THEN Val(body.progress) ELSE old.progress
  IN /\ new.progress = (IF ~IsDefined(body.progress) THEN old.progress
                        ELSE IF p < 0 THEN 0 ELSE IF p > 100 THEN 100 ELSE p)
     /\ new.status = (IF IsDefined(body.progress) /\ p >= 100 THEN "Completed"
                      ELSE IF IsDefined(body.status) THEN Val(body.status)
                      ELSE old.status)
     /\ new.review_status = old.review_status
     /\ new.is_locked = old.is_locked
     /\ new.user_id = old.user_id

\* C7 as claimed: on a locked goal the owner's update is applied when the goal
\* is Approved and the body's keys are within {progress, status}, and is
\* answered 423 with the goal unchanged in every other case.
C7_LockedEditByKeys ==
  \A g \in DOMAIN goals : \A c \in OwnersOf(g), b \in GoalBodies :
    goals[g].is_locked
      => LET r == PutGoal(c, g, b)
         IN IF goals[g].review_status = "Approved" /\ Keys(b) \subseteq {"progress", "status"}
              THEN r.code = 200 /\ IsEdited(goals[g], r.goals[g], b)
              ELSE r.code = 423 /\ r.goals = goals

\* C7 as amended: the same with the body's user_id key left out of the test:
\* user_id is discarded before the keys are examined, so a body of progress,
\* status and user_id is applied (without the user_id) on an Approved goal.
C7_LockedEditByWrittenKeys ==
  \A g \in DOMAIN goals : \A c \in OwnersOf(g), b \in GoalBodies :
    goals[g].is_locked
      => LET r == PutGoal(c, g, b)
         IN IF goals[g].review_status = "Approved"
               /\ Keys(b) \ {"user_id"} \subseteq {"progress", "status"}
              THEN r.code = 200 /\ IsEdited(goals[g], r.goals[g], b)
              ELSE r.code = 423 /\ r.goals = goals

\* C7 witness: the owner's edit was applied to a locked Approved goal.
C7_Witness ==
  /\ resp.op = "PutGoal" /\ resp.code = 200
  /\ resp.id \in DOMAIN goals
  /\ goals[resp.id].is_locked
  /\ goals[resp.id].review_status = "Approved"
  /\ goals[resp.id].progress = 50

\* C8: the owner's request-review leaves the goal Pending and locked when the
\* goal has an action plan and is not Approved; otherwise it is answered 409
\* and review_status and is_locked keep their values.
C8_RequestReview ==
  \A g \in DOMAIN goals : \A c \in OwnersOf(g) :
    LET r == RequestReviewGoal(c, g)
        new == r.goals[g]
    IN IF (\E p \in DOMAIN plans : plans[p].goal_id = g)
          /\ goals[g].review_status # "Approved"
         THEN r.code = 200 /\ new.review_status = "Pending" /\ new.is_locked
         ELSE /\ r.code = 409
              /\ new.review_status = goals[g].review_status
              /\ new.is_locked = goals[g].is_locked

\* C8 witness: the owner's request-review was answered 409 for a goal that has
\* no action plan and is not under review.
C8_Witness ==
  /\ resp.op = "RequestReviewGoal" /\ resp.code = 409
  /\ resp.id \in DOMAIN goals
  /\ resp.sub = goals[resp.id].user_id
  /\ goals[resp.id].review_status = NULL
  /\ ~goals[resp.id].is_locked
  /\ plans = << >>

\* the last request was the owner's successful request-review of goal g,
\* which is still Pending
JustRequested(g) ==
  /\ resp.op = "RequestReviewGoal" /\ resp.code = 200 /\ resp.id = g
  /\ resp.sub = goals[g].user_id
  /\ goals[g].review_status = "Pending"

C10_CancelReview ==
  \A g \in DOMAIN goals : \A c \in OwnersOf(g) :
    LET r == CancelReviewGoal(c, g)
        new == r.goals[g]
    IN IF goals[g].review_status # "Approved"
         THEN r.code = 200 /\ new.review_status = "Cancelled" /\ ~new.is_locked
         ELSE /\ r.code = 409
              /\ new.review_status = "Approved"
              /\ new.is_locked = goals[g].is_locked

\* C10 witness: the owner has cancelled the review of a goal, which is now
\* Cancelled and unlocked.
C10_Witness ==
  /\ resp.op = "CancelReviewGoal" /\ resp.code = 200
  /\ resp.id \in DOMAIN goals
  /\ goals[resp.id].review_status = "Cancelled"
  /\ ~goals[resp.id].is_locked

\* C11 as claimed: every delete request on a locked goal is answered 423.
C11_LockedDeleteIs423 ==
  \A g \in DOMAIN goals : \A c \in Callers, cascade \in BOOLEAN :
    goals[g].is_locked => DeleteGoal(c, g, cascade).code = 423

\* C11 as amended: a delete request on a locked goal leaves the goal as it is,
\* answered 423 when the caller is the owner and 403 when not; and a goal
\* leaves the table only by its owner's delete request, answered 200, from a
\* state where is_locked is false.
C11_LockedGoalNotDeleted ==
  /\ [](\A g \in DOMAIN goals : \A c \in Callers, cascade \in BOOLEAN :
         LET r == DeleteGoal(c, g, cascade)
         IN /\ goals[g].is_locked
                 => /\ r.goals = goals
                    /\ r.code = IF c.sub = goals[g].user_id THEN 423 ELSE 403
            /\ g \notin DOMAIN r.goals
                 => c.sub = goals[g].user_id /\ ~goals[g].is_locked /\ r.code = 200)
  /\ [][\A g \in DOMAIN goals :
          g \notin DOMAIN goals'
            => /\ resp'.op = "DeleteGoal" /\ resp'.id = g /\ resp'.code = 200
               /\ resp'.sub = goals[g].user_id
               /\ ~goals[g].is_locked]_vars

\* C11 witness: the owner's delete request on a locked goal was answered 423
\* and the goal is still there.
C11_Witness ==
  /\ resp.op = "DeleteGoal" /\ resp.code = 423
  /\ resp.id \in DOMAIN goals
  /\ resp.sub = goals[resp.id].user_id
  /\ goals[resp.id].is_locked

\* C12: a leader decision leaves the goal's status "In Progress" when the
\* decision is "Approved" and the status was "Not started" or "Draft", and
\* leaves the status as it was for every other decision or prior status.
C12_DecisionStatus ==
  \A g \in DOMAIN goals : \A c \in Leaders, b \in GoalReviewBodies :
    LET r == ReviewGoal(c, g, b)
    IN /\ r.code = 200
       /\ r.goals[g].status =
            IF b.status = Some("Approved") /\ goals[g].status \in {"Not started", "Draft"}
              THEN "In Progress"
              ELSE goals[g].status

\* C12 witness: a leader decision other than Approved was applied to a goal
\* whose status is "Draft", and the status is still "Draft".
C12_Witness ==
  /\ resp.op = "ReviewGoal" /\ resp.code = 200
  /\ resp.id \in DOMAIN goals
  /\ goals[resp.id].status = "Draft"
  /\ goals[resp.id].review_status = "Rejected"

\* C13: a leader decision on a plan with an outstanding request_deadline_date
\* R leaves end_date = R and the request cleared when it is "Approved", and
\* the request cleared with end_date as it was when it is "Rejected"; an
\* "Approved" decision on a plan with no outstanding request leaves end_date
\* as it was.
C13_PlanDecisionDeadline ==
  \A p \in DOMAIN plans : \A c \in Leaders, b \in PlanReviewBodies :
    LET old == plans[p]
        r == ReviewActionPlan(c, p, b)
        new == r.plans[p]
        R == old.request_deadline_date
    IN /\ r.code = 200
       /\ (R # NullDate /\ b.status = Some("Approved"))
            => new.end_date = R /\ new.request_deadline_date = NullDate
       /\ (R # NullDate /\ b.status = Some("Rejected"))
            => new.end_date = old.end_date /\ new.request_deadline_date = NullDate
       /\ (R = NullDate /\ b.status = Some("Approved"))
            => new.end_date = old.end_date /\ new.request_deadline_date = NullDate

\* C13 witness: a leader has approved a plan whose deadline a member had
\* proposed to change; the plan has a deadline and no outstanding request.
C13_Witness ==
  /\ resp.op = "ReviewActionPlan" /\ resp.code = 200
  /\ resp.id \in DOMAIN plans
  /\ plans[resp.id].review_status = "Approved"
  /\ plans[resp.id].deadline_change_count = 1
  /\ plans[resp.id].end_date \in Dates
  /\ plans[resp.id].request_deadline_date = NullDate

\* C14: while a plan is locked and Pending, a member update whose body has a
\* key other than end_date is answered 423 and leaves the plan, and every
\* other row, as it is.
C14_LockedPlanDeadlineOnly ==
  \A p \in DOMAIN plans : \A c \in PlanMembers(p), b \in PlanBodies :
    (plans[p].is_locked /\ plans[p].review_status = "Pending"
       /\ Keys(b) \ {"end_date"} # {})
      => LET r == PutActionPlan(c, p, b)
         IN r.code = 423 /\ r.plans = plans /\ r.goals = goals

\* C14 witness: a member update of a locked, Pending plan was answered 423.
C14_Witness ==
  /\ resp.op = "PutActionPlan" /\ resp.code = 423
  /\ resp.id \in DOMAIN plans
  /\ resp.sub \in {c.sub : c \in PlanMembers(resp.id)}
  /\ plans[resp.id].is_locked
  /\ plans[resp.id].review_status = "Pending"

\* C15 as claimed: while a plan is Pending, a member update that carries a
\* status different from the plan's is answered 409 and the status is kept.
C15_StatusChangeIs409 ==
  \A p \in DOMAIN plans : \A c \in PlanMembers(p), b \in PlanBodies :
    StatusFrozen(plans[p], b)
      => LET r == PutActionPlan(c, p, b)
         IN r.code = 409 /\ r.plans[p].status = plans[p].status

\* C15 as amended: while a plan is Pending, a member update that carries a
\* status different from the plan's is rejected and leaves the plan as it is;
\* the answer is 423 when the plan is locked and 409 when it is not.
C15_StatusFrozen ==
  \A p \in DOMAIN plans : \A c \in PlanMembers(p), b \in PlanBodies :
    StatusFrozen(plans[p], b)
      => LET r == PutActionPlan(c, p, b)
         IN /\ r.code = IF plans[p].is_locked THEN 423 ELSE 409
            /\ r.plans = plans

\* C15 witness: a member update of a Pending plan that is not locked and has
\* its deadline quota untouched was answered 409.
C15_Witness ==
  /\ resp.op = "PutActionPlan" /\ resp.code = 409
  /\ resp.id \in DOMAIN plans
  /\ resp.sub \in {c.sub : c \in PlanMembers(resp.id)}
  /\ plans[resp.id].review_status = "Pending"
  /\ ~plans[resp.id].is_locked
  /\ plans[resp.id].deadline_change_count = 0

\* C16: a member update whose end_date equals the plan's effective current
\* deadline leaves deadline_change_count, request_deadline_date, end_date,
\* review_status and is_locked as they were.
C16_SameDateIsNoOp ==
  \A p \in DOMAIN plans : \A c \in PlanMembers(p), b \in PlanBodies :
    (IsDefined(b.end_date) /\ Val(b.end_date) \in Dates
       /\ Val(b.end_date) = EffectiveDeadline(plans[p]))
      => LET old == plans[p]
             new == PutActionPlan(c, p, b).plans[p]
         IN /\ new.deadline_change_count = old.deadline_change_count
            /\ new.request_deadline_date = old.request_deadline_date
            /\ new.end_date = old.end_date
            /\ new.review_status = old.review_status
            /\ new.is_locked = old.is_locked

\* the base fields of a goal decision are what row holds
HoldsGoalDecision(old, row, body) ==
  /\ row.review_status = IF IsDefined(body.status) THEN Val(body.status) ELSE old.review_status
  /\ row.leader_review_notes =
       IF IsDefined(body.comment) THEN Val(body.comment) ELSE old.leader_review_notes
  /\ row.is_locked = GoalReviewLock(body.status)
  /\ row.status = GoalReviewNextStatus(body.status, old.status)

\* the base fields of a plan decision are what row holds
HoldsPlanDecision(old, row, body) ==
  /\ row.review_status = IF IsDefined(body.status) THEN Val(body.status) ELSE old.review_status
  /\ row.leader_review_notes =
       IF IsDefined(body.comment) THEN Val(body.comment) ELSE old.leader_review_notes
  /\ row.is_locked = (body.status = Some("Pending"))

\* the store's answer is a failure of the missing-column class
MissingColumn(outcome) ==
  outcome # OK /\ (outcome.code = "ER_BAD_FIELD_ERROR" \/ outcome.unknownColumn)

\* what C17 says of one decision: r is the handler's answer, old and new the
\* entity before and after, held whether new holds the base fields
RetriesOnce(r, first, second, old, new, held) ==
  /\ Len(r.attempts) <= 2
  /\ \A i \in DOMAIN r.attempts : i = 1 <=> (DOMAIN r.attempts[i] \cap AuditFields # {})
  /\ first = OK => Len(r.attempts) = 1 /\ r.code = 200 /\ held
  /\ MissingColumn(first)
       => /\ Len(r.attempts) = 2
          /\ r.attempts[2] =
               [k \in DOMAIN r.attempts[1] \ AuditFields |-> r.attempts[1][k]]
          /\ second = OK => r.code = 200 /\ held
          /\ second # OK => r.code = 500 /\ new = old
  /\ (first # OK /\ ~MissingColumn(first))
       => Len(r.attempts) = 1 /\ r.code = 500 /\ new = old

\* C17: when the audited update of a leader decision on a goal or an action
\* plan fails with a missing-column error, the same update is submitted once
\* more without the audit fields, and if that succeeds the request succeeds
\* and the entity holds the base fields; a failure of another class is not
\* retried, and no decision submits more than two updates.
C17_MissingColumnRetry ==
  \A c \in Leaders, b \in DecisionBodies, profile \in Profiles,
     first \in StoreOutcomes, second \in StoreOutcomes :
    /\ \A g \in DOMAIN goals :
         LET r == ReviewGoalAudited(c, g, b, profile, first, second)
         IN RetriesOnce(r, first, second, goals[g], r.goals[g],
                        HoldsGoalDecision(goals[g], r.goals[g], b))
    /\ \A p \in DOMAIN plans :
         LET r == ReviewActionPlanAudited(c, p, b, profile, first, second)
         IN RetriesOnce(r, first, second, plans[p], r.plans[p],
                        HoldsPlanDecision(plans[p], r.plans[p], b))

\* C17 witness: a leader's approval of a goal that was under review took two
\* updates and succeeded; the goal holds the decision.
C17_Witness ==
  /\ resp.op = "ReviewGoal" /\ resp.code = 200 /\ resp.attempts = 2
  /\ resp.id \in DOMAIN goals
  /\ goals[resp.id].review_status = "Approved"
  /\ goals[resp.id].is_locked
  /\ goals[resp.id].status = "In Progress"

C19_ProgressInRange ==
  \A g \in DOMAIN goals : goals[g].progress \in 0..100

\* the goal a plan hangs on and the plan a report hangs on, NULL when the
\* row does not exist
GoalOfPlan(p) == IF p \in DOMAIN plans THEN plans[p].goal_id ELSE NULL
PlanOfReport(w) == IF w \in DOMAIN reports THEN reports[w].action_plan_id ELSE NULL

\* what the access guard owes member c for a row whose owning goal is g
\* (NULL when the row, or a row on its chain, does not exist)
GuardAnswer(c, g) ==
  IF g \notin DOMAIN goals THEN 404
  ELSE IF goals[g].user_id # c.sub THEN 403
  ELSE 0

\* C20: for a member, the access guard of a goal, an action plan or a weekly
\* report answers 404 when the row or a row on the chain report -> plan ->
\* goal does not exist, 403 when the chain exists and the owning goal's
\* user_id is not the caller's id, and lets the call pass exactly when the
\* owning goal's user_id is the caller's id.
C20_MemberAccessGuard ==
  \A c \in Members :
    /\ \A g \in GoalIds : assertCanAccessGoal(c, g) = GuardAnswer(c, g)
    /\ \A p \in PlanIds : assertCanAccessActionPlan(c, p) = GuardAnswer(c, GoalOfPlan(p))
    /\ \A w \in ReportIds :
         assertCanAccessWeeklyReport(c, w) = GuardAnswer(c, GoalOfPlan(PlanOfReport(w)))

\* C20 witness: a member who does not own the goal at the end of an existing
\* chain report -> plan -> goal was answered 403 on the report.
C20_Witness ==
  /\ resp.op = "PutWeeklyReport" /\ resp.code = 403
  /\ resp.id \in DOMAIN reports
  /\ GoalOfPlan(PlanOfReport(resp.id)) \in DOMAIN goals
  /\ resp.sub \in {c.sub : c \in Members}
  /\ resp.sub # goals[GoalOfPlan(PlanOfReport(resp.id))].user_id

\* C21: a caller whose groups contain leader or manager is never answered
\* 403 by the access guard of a goal, an action plan or a weekly report.
C21_StaffAlwaysPass ==
  \A c \in Leaders \cup Managers :
    /\ \A g \in GoalIds : assertCanAccessGoal(c, g) # 403
    /\ \A p \in PlanIds : assertCanAccessActionPlan(c, p) # 403
    /\ \A w \in ReportIds : assertCanAccessWeeklyReport(c, w) # 403

\* the leader c and the user with id sub are in different teams
OtherTeam(c, sub) ==
  sub \in DOMAIN Users /\ Users[c.sub].team_id # Users[sub].team_id

\* C22: a leader's review decision on a goal or an action plan whose owner
\* is in a different team than the leader is rejected and leaves the goal or
\* the action plan as it is.
C22_DecisionsTeamScoped ==
  \A c \in Leaders \cup OutsideLeaders :
    /\ \A g \in DOMAIN goals : \A b \in GoalReviewBodies :
         OtherTeam(c, goals[g].user_id)
           => LET r == ReviewGoal(c, g, b)
              IN r.code # 200 /\ r.goals = goals
    /\ \A p \in DOMAIN plans : \A b \in PlanReviewBodies :
         (GoalOfPlan(p) \in DOMAIN goals /\ OtherTeam(c, goals[GoalOfPlan(p)].user_id))
           => LET r == ReviewActionPlan(c, p, b)
              IN r.code # 200 /\ r.plans = plans

\* the status precondition of a member's weekly report on plan p
CanReport(p) ==
  /\ goals[GoalOfPlan(p)].status = "In Progress"
  /\ plans[p].status \in {"In Progress", "Blocked"}

\* C23: a non-leader caller's weekly report for an action plan is created
\* only when the parent goal is "In Progress" and the plan is "In Progress"
\* or "Blocked"; in every other case the call is answered 409 and no report
\* is created.
C23_ReportPrecondition ==
  \A p \in DOMAIN plans : \A c \in PlanMembers(p), w \in ReportIds, b \in ReportBodies :
    LET r == PostWeeklyReport(c, p, w, b)
    IN IF CanReport(p)
         THEN w \notin DOMAIN reports
                => /\ r.code = 200
                   /\ w \in DOMAIN r.reports
                   /\ r.reports[w].action_plan_id = p
         ELSE r.code = 409 /\ r.reports = reports

\* C23 witness: the owner's weekly report for a plan that is "Not Started"
\* was answered 409 and there is no report.
C23_Witness ==
  /\ resp.op = "PostWeeklyReport" /\ resp.code = 409
  /\ \E p \in DOMAIN plans :
       /\ resp.sub \in {c.sub : c \in PlanMembers(p)}
       /\ plans[p].status = "Not Started"
  /\ reports = << >>

\* the lead_feedback of every report in after is what it was in the current
\* table, and unset for a report that was not there
FeedbackKept(after) ==
  \A w \in DOMAIN after :
    after[w].lead_feedback =
      IF w \in DOMAIN reports THEN reports[w].lead_feedback ELSE NULL

\* C24: no request of a non-leader caller, creating or updating a weekly
\* report, sets or changes a report's lead_feedback.
C24_FeedbackLeaderOnly ==
  \A c \in Members, w \in ReportIds, b \in ReportBodies :
    /\ FeedbackKept(PutWeeklyReport(c, w, b).reports)
    /\ \A p \in PlanIds : FeedbackKept(PostWeeklyReport(c, p, w, b).reports)

\* the reviews of request v in the table rows
ReviewsOf(rows, v) == {i \in DOMAIN rows : rows[i].request_id = v}

-----------------------------------------------------------------------------
(* Properties of the dashboards.                                            *)

\* the lookback windows the rollups are asked for
Lookbacks == {LookbackWeeks(w) : w \in WeeksInputs}

\* the day of the server's wall clock, and the Monday of its week (day 1 is
\* a Monday)
Today == (server.now + server.tz) \div Day
ThisMonday == Today - ((Today - 1) % 7)

\* member u has a weekly report dated in the week that lies i weeks before
\* the current one
WeekHasReport(u, i) ==
  \E r \in DOMAIN reports :
    /\ reports[r].goal_id \in DOMAIN goals
    /\ goals[reports[r].goal_id].user_id = u
    /\ reports[r].date >= ThisMonday - 7 * i
    /\ reports[r].date <= ThisMonday - 7 * i + 6

IsStreak(u, k) == \A i \in 0..(k - 1) : WeekHasReport(u, i)

\* the largest k <= W with a report in each of the k weeks back from now
LongestStreak(u, W) ==
  CHOOSE k \in 0..W : IsStreak(u, k) /\ \A j \in (k + 1)..W : ~IsStreak(u, j)

\* C26: the weekly activity streak of a member equals the largest k <= W such
\* that each of the k weeks counted backward from the current week has at
\* least one report, in the member rollup and in the team members summary.
C26_StreakIsLongestRun ==
  \A u \in InsightSubjects, W \in Lookbacks :
    /\ computeMemberInsights(u, W).weekly_reports.streak_weeks = LongestStreak(u, W)
    /\ \A t \in Teams :
         u \in TeamMembers(t) =>
           TeamMembersSummary(t, W)[u].weekly_reports.streak_weeks = LongestStreak(u, W)

\* the goals that have no row in goal_progress_history
WithoutHistory(G) ==
  {g \in G : \A i \in DOMAIN goal_progress_history : goal_progress_history[i].goal_id # g}

\* the sum of current minus previous progress over the goals S
DeltaSum(v, S) == SumOver([g \in S |-> v.cur[g] - v.prev[g]], S)

\* C27: a goal with no progress-history rows has its live progress as
\* "current" and "previous" equal to "current", so it adds exactly 0 to the
\* progress delta of its member and of its team, and a delta is answered.
C27_NoHistoryNoDelta ==
  /\ \A u \in InsightSubjects, W \in Lookbacks :
       LET G == {g \in DOMAIN goals : goals[g].user_id = u}
           v == ProgressValues(G, Max(14, W * 7))
       IN /\ \A g \in WithoutHistory(G) :
               v.cur[g] = goals[g].progress /\ v.prev[g] = v.cur[g]
          /\ G # {} =>
               computeMemberInsights(u, W).progress_delta =
                 NumberOf(ToFixed(Quotient(DeltaSum(v, G \ WithoutHistory(G)),
                                           Cardinality(G)), 100))
  /\ \A t \in Teams :
       LET G == TeamGoals(t)
           v == ProgressValues(G, 14)
       IN /\ \A g \in WithoutHistory(G) :
               v.cur[g] = goals[g].progress /\ v.prev[g] = v.cur[g]
          /\ G # {} =>
               OverviewTeam(t).progress_delta =
                 NumberOf(ToFixed(Quotient(DeltaSum(v, G \ WithoutHistory(G)),
                                           Cardinality(G)), 100))

\* C27 witness: member u1 is answered a rollup over a goal without history,
\* whose live progress is not 0, and a goal whose history moved.
C27_Witness ==
  /\ resp.op = "MemberInsights" /\ resp.id = "u1" /\ resp.code = 200
  /\ DOMAIN goals = {"g1", "g2"}
  /\ goals["g1"].user_id = "u1" /\ goals["g2"].user_id = "u1"
  /\ WithoutHistory(DOMAIN goals) = {"g1"}
  /\ goals["g1"].progress = 40
  /\ resp.data.progress_delta = NumberOf(Quotient(3000, 100))

\* the rollup of a member without goals, but for its progress delta: every
\* count is zero, the evidence rate is the number 0, no blocker is listed
ZeroCounts(r) ==
  /\ r.goals.total = 0 /\ r.goals.approved = 0 /\ r.goals.pending = 0
  /\ r.goals.health = [onTrack |-> 0, atRisk |-> 0, highRisk |-> 0, stagnant |-> 0]
  /\ r.action_plans.total = 0 /\ r.action_plans.overdue = 0
  /\ r.action_plans.completed = 0 /\ r.action_plans.completed_with_evidence = 0
  /\ r.action_plans.evidence_rate.den # 0 /\ r.action_plans.evidence_rate.num = 0
  /\ r.weekly_reports.reports_in_window = 0
  /\ r.weekly_reports.weeks_with_activity = 0
  /\ r.weekly_reports.streak_weeks = 0
  /\ r.weekly_reports.top_blockers = << >>

\* the users that own no goal
WithoutGoals == {u \in InsightSubjects : \A g \in DOMAIN goals : goals[g].user_id # u}

\* C28 as stated: the rollup of a member with zero goals has every metric
\* zero, the progress delta included.
C28_AllZeroWithoutGoals ==
  \A u \in WithoutGoals, W \in Lookbacks :
    LET r == computeMemberInsights(u, W)
    IN /\ ZeroCounts(r)
       /\ r.progress_delta # NullNumber
       /\ Val(r.progress_delta).den # 0 /\ Val(r.progress_delta).num = 0

\* C28: the rollup of a member with zero goals has every count zero, the
\* evidence rate 0 and no blocker, and its progress delta is null; the
\* request is answered 200.
C28_ZeroRollupWithoutGoals ==
  /\ \A u \in WithoutGoals, W \in Lookbacks :
       LET r == computeMemberInsights(u, W)
       IN ZeroCounts(r) /\ r.progress_delta = NullNumber
  /\ resp.op = "MemberInsights" => resp.code = 200

\* C28 witness: the rollup of u2, who has no goal, is answered while another
\* member has a goal with a plan and weekly reports of the window.
C28_Witness ==
  /\ resp.op = "MemberInsights" /\ resp.id = "u2" /\ resp.code = 200
  /\ "u2" \in WithoutGoals
  /\ computeMemberInsights("u1", resp.weeks).weekly_reports.reports_in_window > 0
  /\ computeMemberInsights("u1", resp.weeks).action_plans.overdue > 0
  /\ resp.data.progress_delta = NullNumber

\* a non-empty trimmed evidence link
NonEmptyTrimmed(x) == x \notin {NULL, "", " "}

\* the completed plans among the plans of the goals G, and those of them
\* with evidence
CompletedOf(G) ==
  {p \in DOMAIN plans : plans[p].goal_id \in G /\ plans[p].status = "Completed"}
EvidencedOf(G) == {p \in CompletedOf(G) : NonEmptyTrimmed(plans[p].evidence_link)}

\* r is a / b exactly, b > 0
IsQuotient(r, a, b) == r.den # 0 /\ r.num * b = a * r.den

\* r is a / b to four decimals, b > 0
IsRounded(r, a, b) == r.den = 10000 /\ 2 * Abs(r.num * b - a * r.den) <= b

\* r is a number of [0, 1]
InUnit(r) == r.den > 0 /\ 0 <= r.num /\ r.num <= r.den

MemberGoals(u) == {g \in DOMAIN goals : goals[g].user_id = u}
AllTeamGoals == UNION {TeamGoals(t) : t \in Teams}

\* C29 as stated: at member, team and org scope the evidence rate is 0 when
\* no plan is completed and otherwise exactly the quotient of the completed
\* plans with evidence by the completed plans.
C29_RateIsExactQuotient ==
  /\ \A u \in InsightSubjects, W \in Lookbacks :
       LET r == computeMemberInsights(u, W).action_plans.evidence_rate
           G == MemberGoals(u)
       IN IF CompletedOf(G) = {} THEN r.den # 0 /\ r.num = 0
          ELSE IsQuotient(r, Cardinality(EvidencedOf(G)), Cardinality(CompletedOf(G)))
  /\ \A t \in Teams :
       LET r == ManagerOverview.per_team[t].action_plans.evidence_rate
           G == TeamGoals(t)
       IN IF CompletedOf(G) = {} THEN r.den # 0 /\ r.num = 0
          ELSE IsQuotient(r, Cardinality(EvidencedOf(G)), Cardinality(CompletedOf(G)))
  /\ LET r == ManagerOverview.org.action_plans.evidence_rate
         G == AllTeamGoals
     IN IF CompletedOf(G) = {} THEN r.den # 0 /\ r.num = 0
        ELSE IsQuotient(r, Cardinality(EvidencedOf(G)), Cardinality(CompletedOf(G)))

\* C29: the evidence rate is 0 when no plan is completed; otherwise it is the
\* quotient of the completed plans with evidence by the completed plans,
\* exactly at member scope and to four decimals at team and org scope; it
\* is a number of [0, 1] and never the result of a division by zero.
C29_EvidenceRate ==
  /\ \A u \in InsightSubjects, W \in Lookbacks :
       LET r == computeMemberInsights(u, W).action_plans.evidence_rate
           G == MemberGoals(u)
       IN /\ InUnit(r)
          /\ IF CompletedOf(G) = {} THEN r.num = 0
             ELSE IsQuotient(r, Cardinality(EvidencedOf(G)), Cardinality(CompletedOf(G)))
  /\ \A t \in Teams :
       LET r == ManagerOverview.per_team[t].action_plans.evidence_rate
           G == TeamGoals(t)
       IN /\ InUnit(r)
          /\ IF CompletedOf(G) = {} THEN r.num = 0
             ELSE IsRounded(r, Cardinality(EvidencedOf(G)), Cardinality(CompletedOf(G)))
  /\ LET r == ManagerOverview.org.action_plans.evidence_rate
         G == AllTeamGoals
     IN /\ InUnit(r)
        /\ IF CompletedOf(G) = {} THEN r.num = 0
           ELSE IsRounded(r, Cardinality(EvidencedOf(G)), Cardinality(CompletedOf(G)))

\* C29 witness: the overview is answered with one of three completed plans of
\* team t1 carrying evidence, and no completed plan in team t2.
C29_Witness ==
  /\ resp.op = "ManagerOverview" /\ resp.code = 200
  /\ resp.data.per_team["t1"].action_plans.completed = 3
  /\ resp.data.per_team["t1"].action_plans.evidence_rate = Quotient(3333, 10000)
  /\ resp.data.per_team["t2"].action_plans.completed = 0
  /\ resp.data.per_team["t2"].action_plans.evidence_rate.num = 0

-----------------------------------------------------------------------------
(* Properties of the paging scan.                                           *)

\* C30 as stated: the scan sends at most 200 page requests.
C30_AtMost200Requests == scan.requests <= 200

\* C30: the scan of the goals summary sends at most 201 page requests and
\* then has ended, whatever pages the gateway returns: every scan that waits
\* for a page comes to its end.
C30_ScanTerminates ==
  /\ [](scan.requests <= 201)
  /\ [](scan.requests = 201 => scan.pc # "request")
  /\ (scan.pc = "request") ~> (scan.pc \in {"done", "failed", "answered"})

\* C30 witness: the gateway returned a full page on every request and the
\* scan has ended after the request at offset 100000.
C30_Witness ==
  /\ scan.pc = "done"
  /\ scan.requests = 201
  /\ scan.total = 201 * pageLimit
  /\ scan.offset = OffsetCeiling + pageLimit

-----------------------------------------------------------------------------
(* Adding an action plan to a goal.                                         *)

\* the members that own goal g
MemberOwners(g) == {c \in Members : c.sub = goals[g].user_id}

\* C40: a member adds an action plan to a goal of theirs only while the goal
\* is unlocked and "Not started": on a locked goal the call is answered 423, on
\* an unlocked goal with another status 409, and neither creates a plan.
C40_AddPlanOnlyBeforeStart ==
  \A g \in DOMAIN goals : \A c \in MemberOwners(g), id \in PlanIds, b \in NewPlanBodies :
    LET r == PostActionPlan(c, g, id, b)
    IN /\ goals[g].is_locked
            => r.code = 423 /\ r.plans = plans /\ r.goals = goals
       /\ (~goals[g].is_locked /\ goals[g].status # "Not started")
            => r.code = 409 /\ r.plans = plans /\ r.goals = goals
       /\ r.plans # plans
            => ~goals[g].is_locked /\ goals[g].status = "Not started"

\* C40 witness: the owner's call on an unlocked goal that has started was
\* answered 409 and there is no action plan.
C40_Witness ==
  /\ resp.op = "PostActionPlan" /\ resp.code = 409
  /\ "g1" \in DOMAIN goals
  /\ resp.sub = goals["g1"].user_id
  /\ resp.sub \in {c.sub : c \in Members}
  /\ ~goals["g1"].is_locked
  /\ goals["g1"].status # "Not started"
  /\ plans = << >>

-----------------------------------------------------------------------------
(* Batch fetches.                                                           *)

\* the id lists of the queries sent to table, one after the other
RECURSIVE IdsSentTo(_, _)
IdsSentTo(sent, table) ==
  IF sent = << >> THEN << >>
  ELSE (IF Head(sent).table = table THEN Head(sent).ids ELSE << >>)
         \o IdsSentTo(Tail(sent), table)

\* the batches sent so far and those still to send are the id list, in order
ChunksPartition ==
  LET flat[i \in 0..Len(gateway.batches)] ==
        IF i = 0 THEN << >> ELSE flat[i - 1] \o gateway.batches[i]
  IN IdsSentTo(gateway.sent, "weekly_reports") \o flat[Len(gateway.batches)] = gateway.ids

\* C31: every query of a dashboard request that filters by a list of ids
\* carries at most 200 ids, and the batches of one fetch are the id list cut
\* in order, every id in exactly one batch.
C31_BatchFetchesChunked ==
  /\ \A i \in DOMAIN gateway.sent : Len(gateway.sent[i].ids) <= BatchSize
  /\ ChunksPartition

-----------------------------------------------------------------------------
(* Concurrent requests.                                                     *)

\* C32: however the statements of concurrent deadline proposals on one plan
\* interleave, at most 3 proposals of the plan are ever accepted.
C32_AtMostThreeAccepted ==
  \A p \in DOMAIN accepted : accepted[p] <= MaxDeadlineChanges

\* C33: when an Approved decision is written while the plan holds a deadline
\* proposal, the end_date it writes is that proposal: the decision does not
\* apply an older proposal and discard the one stored.
C33_ApprovalAppliesStoredProposal ==
  [][\A s \in Slots :
       (/\ inflight[s].op = "ReviewActionPlan" /\ inflight[s].pc = "update"
        /\ inflight'[s].pc = "done"
        /\ inflight[s].updates.review_status = Some("Approved")
        /\ inflight[s].id \in DOMAIN plans
        /\ plans[inflight[s].id].request_deadline_date # NullDate)
         => inflight[s].updates.end_date
              = Some(plans[inflight[s].id].request_deadline_date)]_vars

\* C34: however an owner's delete interleaves with a request-review or a
\* leader's decision on the goal, a goal row is deleted only while its stored
\* is_locked is false.
C34_DeleteOnlyUnlocked ==
  [][\A g \in DOMAIN goals : g \notin DOMAIN goals' => ~goals[g].is_locked]_vars

-----------------------------------------------------------------------------
(* Review states of goals and action plans.                                 *)

\* C35: a goal under review keeps an action plan: no request of a member
\* takes a Pending, locked goal that has an action plan (the state
\* request-review leaves) to a Pending goal that has none.
C35_PendingGoalKeepsPlan ==
  [][\A g \in DOMAIN goals :
       (/\ goals[g].review_status = "Pending"
        /\ goals[g].is_locked
        /\ \E p \in DOMAIN plans : plans[p].goal_id = g
        /\ resp'.sub \in {c.sub : c \in Members}
        /\ g \in DOMAIN goals'
        /\ goals'[g].review_status = "Pending")
         => \E p \in DOMAIN plans' : plans'[p].goal_id = g]_vars

\* the plan is locked exactly when it is Pending
LockedIffPending(plan) == plan.is_locked <=> plan.review_status = "Pending"

\* C36: every review transition of an action plan (the member's
\* request-review, cancel-review and deadline proposal, the leader's decision
\* with any status value) leaves the plan locked if and only if it is Pending.
C36_PlanLockedIffPending ==
  \A p \in DOMAIN plans :
    /\ \A c \in PlanMembers(p) :
         /\ LET r == RequestReviewPlan(c, p)
            IN r.code = 200 => LockedIffPending(r.plans[p])
         /\ LET r == CancelReviewPlan(c, p)
            IN r.code = 200 => LockedIffPending(r.plans[p])
         /\ \A b \in PlanBodies :
              LET r == PutActionPlan(c, p, b)
              IN (ProposesChange(plans[p], b) /\ r.code = 200)
                   => LockedIffPending(r.plans[p])
    /\ \A c \in Leaders, b \in PlanReviewBodies :
         LET r == ReviewActionPlan(c, p, b)
         IN IsDefined(b.status)
              => r.code = 200 /\ LockedIffPending(r.plans[p])

\* C36 witness: the leader has approved a plan that was Pending with a
\* proposal, and the plan is neither Pending nor locked.
C36_Witness ==
  /\ resp.op = "ReviewActionPlan" /\ resp.code = 200
  /\ resp.id \in DOMAIN plans
  /\ plans[resp.id].review_status = "Approved"
  /\ ~plans[resp.id].is_locked
  /\ plans[resp.id].deadline_change_count = 2

\* a step takes goal g out of the Approved, locked state or out of the table
LeavesApproved(g) ==
  /\ goals[g].review_status = "Approved"
  /\ goals[g].is_locked
  /\ \/ g \notin DOMAIN goals'
     \/ goals'[g].review_status # "Approved"
     \/ ~goals'[g].is_locked

\* C37 as claimed: a goal that is Approved and locked stays in the table with
\* its review_status and is_locked through every request of a member; the
\* only step that changes either is a leader's decision.
C37_OnlyLeaderDecision ==
  [][\A g \in DOMAIN goals :
       LeavesApproved(g)
         => /\ resp'.op = "ReviewGoal"
            /\ resp'.sub \in {c.sub : c \in Leaders}
            /\ g \in DOMAIN goals']_vars

\* C37: a goal that is Approved and locked stays in the table with its
\* review_status and is_locked through every request of a member; the step
\* that changes either is a request of a leader, a decision or a leader's
\* update of the goal.
C37_ApprovedGoalHeldForMembers ==
  [][\A g \in DOMAIN goals :
       LeavesApproved(g)
         => /\ resp'.op \in {"ReviewGoal", "LeaderPutGoal"}
            /\ resp'.sub \in {c.sub : c \in Leaders}
            /\ resp'.sub \notin {c.sub : c \in Members}
            /\ g \in DOMAIN goals']_vars

\* C37 witness: the owner's edit of an Approved, locked goal was accepted and
\* the goal is still Approved and locked.
C37_Witness ==
  /\ resp.op = "PutGoal" /\ resp.code = 200
  /\ resp.id \in DOMAIN goals
  /\ resp.sub = goals[resp.id].user_id
  /\ goals[resp.id].review_status = "Approved"
  /\ goals[resp.id].is_locked
  /\ goals[resp.id].progress = 50

\* C38: every transition that takes a plan out of Pending (a leader's decision
\* with a status other than Pending, the member's cancel-review) leaves it
\* without a requested deadline, so that only a Pending plan carries one.
C38_LeavingPendingSettlesProposal ==
  \A p \in DOMAIN plans :
    plans[p].review_status = "Pending"
      => /\ \A c \in Leaders, b \in PlanReviewBodies :
              LET r == ReviewActionPlan(c, p, b)
              IN (IsDefined(b.status) /\ b.status # Some("Pending"))
                   => /\ r.code = 200
                      /\ r.plans[p].review_status # "Pending"
                      /\ r.plans[p].request_deadline_date = NullDate
         /\ \A c \in PlanMembers(p) :
              LET r == CancelReviewPlan(c, p)
              IN /\ r.code = 200
                 /\ r.plans[p].review_status # "Pending"
                 /\ r.plans[p].request_deadline_date = NullDate

-----------------------------------------------------------------------------
(* Ownership.                                                               *)

\* C39: no request of a member gives a goal to another user or moves an
\* action plan to another goal: a goal a member creates has the caller as
\* user_id, a member's update keeps a goal's user_id, and a member's update
\* keeps an action plan's goal_id.
C39_MemberKeepsOwnership ==
  /\ \A c \in Members, id \in GoalIds, b \in GoalBodies :
       LET r == PostGoal(c, id, b)
       IN r.code = 200 => r.goals[id].user_id = c.sub
  /\ \A g \in DOMAIN goals : \A c \in Members, b \in GoalBodies :
       LET r == PutGoal(c, g, b)
       IN g \in DOMAIN r.goals /\ r.goals[g].user_id = goals[g].user_id
  /\ \A p \in DOMAIN plans : \A c \in Members, b \in PlanBodies \cup ReassignBodies :
       LET r == PutActionPlan(c, p, b)
       IN p \in DOMAIN r.plans /\ r.plans[p].goal_id = plans[p].goal_id

====
